---- MODULE Spec2Model ----
(***************************************************************************)
(* The AI generation gateway of the Mansa Jobs backend                      *)
(* (src/ai_services/gemini_service.py, src/ai_services/views.py) and the    *)
(* other entry point that calls a handler (src/users/views.py).             *)
(*                                                                          *)
(* Text is a sequence of one-character strings, so that strip, split, find, *)
(* rfind, slicing and JSON decoding are computed on the characters.         *)
(***************************************************************************)
EXTENDS Integers, Sequences, FiniteSets, TLC

(***************************************************************************)
(* Python str operations                                                    *)
(***************************************************************************)

Rep(c, n) == [i \in 1..n |-> c]

IsSpace(c) == c \in {" ", "\n"}

\* s[a:b] with Python's treatment of negative and out-of-range indices
Slice(s, a, b) ==
    LET n  == Len(s)
        lo == IF a < 0 THEN (IF n + a > 0 THEN n + a ELSE 0) ELSE (IF a < n THEN a ELSE n)
        hi == IF b < 0 THEN (IF n + b > 0 THEN n + b ELSE 0) ELSE (IF b < n THEN b ELSE n)
    IN  IF lo >= hi THEN <<>> ELSE SubSeq(s, lo + 1, hi)

\* whether pat occurs in s at the 0-based offset i
MatchAt(s, pat, i) ==
    /\ i >= 0
    /\ i + Len(pat) <= Len(s)
    /\ \A j \in 1..Len(pat) : s[i + j] = pat[j]

RECURSIVE FindFrom(_, _, _)
FindFrom(s, pat, i) ==
    IF i + Len(pat) > Len(s) THEN -1
    ELSE IF MatchAt(s, pat, i) THEN i ELSE FindFrom(s, pat, i + 1)

\* s.find(pat, from): the least offset >= from, or -1
Find(s, pat, from) == FindFrom(s, pat, IF from > 0 THEN from ELSE 0)

RECURSIVE RFindFrom(_, _, _)
RFindFrom(s, pat, i) ==
    IF i < 0 THEN -1
    ELSE IF MatchAt(s, pat, i) THEN i ELSE RFindFrom(s, pat, i - 1)

\* s.rfind(pat): the greatest offset, or -1
RFind(s, pat) == RFindFrom(s, pat, Len(s) - Len(pat))

\* pat in s
Contains(s, pat) == Find(s, pat, 0) # -1

RECURSIVE LStrip(_)
LStrip(s) == IF s # <<>> /\ IsSpace(Head(s)) THEN LStrip(Tail(s)) ELSE s

RECURSIVE RStrip(_)
RStrip(s) == IF s # <<>> /\ IsSpace(s[Len(s)]) THEN RStrip(SubSeq(s, 1, Len(s) - 1)) ELSE s

\* s.strip()
Strip(s) == RStrip(LStrip(s))

RECURSIVE SplitFrom(_, _, _, _)
\* s.split(): the maximal runs of non-whitespace characters, in order
SplitFrom(s, i, word, acc) ==
    IF i > Len(s)
    THEN IF word = <<>> THEN acc ELSE Append(acc, word)
    ELSE IF IsSpace(s[i])
         THEN SplitFrom(s, i + 1, <<>>, IF word = <<>> THEN acc ELSE Append(acc, word))
         ELSE SplitFrom(s, i + 1, Append(word, s[i]), acc)

Split(s) == SplitFrom(s, 1, <<>>, <<>>)

(***************************************************************************)
(* Python values: every value is a record [t, v] whose tag t names the type *)
(* (dict, list, str, int, None); v is the content.  A dict is a function    *)
(* from its keys (texts) to values.                                         *)
(***************************************************************************)

None == [t |-> "None", v |-> <<>>]

PyStr(s) == [t |-> "str", v |-> s]

PyInt(n) == [t |-> "int", v |-> n]

PyList(items) == [t |-> "list", v |-> items]

PyDict(items) == [t |-> "dict", v |-> items]

EmptyDict == PyDict(<<>>)

\* a dict is its items <<key, value>> in insertion order, the keys distinct
Keys(d) == {d.v[i][1] : i \in 1..Len(d.v)}

\* bool(x): None, 0, '', [] and {} are false
Truthy(x) ==
    CASE x.t = "None" -> FALSE
      [] x.t = "int"  -> x.v # 0
      [] OTHER        -> x.v # <<>>

\* d[k] = val: in place when k is a key of d, appended otherwise
DictSet(d, k, val) ==
    IF k \in Keys(d)
    THEN PyDict([i \in 1..Len(d.v) |-> IF d.v[i][1] = k THEN <<k, val>> ELSE d.v[i]])
    ELSE PyDict(Append(d.v, <<k, val>>))

\* d.get(k, default)
DictGet(d, k, default) ==
    IF k \in Keys(d)
    THEN d.v[CHOOSE i \in 1..Len(d.v) : d.v[i][1] = k][2]
    ELSE default

RECURSIVE Join(_, _)
\* sep.join(parts)
Join(parts, sep) ==
    IF parts = <<>> THEN <<>>
    ELSE IF Len(parts) = 1 THEN parts[1]
         ELSE parts[1] \o sep \o Join(Tail(parts), sep)

DigitChar(n) ==
    CASE n = 0 -> "0" [] n = 1 -> "1" [] n = 2 -> "2" [] n = 3 -> "3"
      [] n = 4 -> "4" [] n = 5 -> "5" [] n = 6 -> "6" [] n = 7 -> "7"
      [] n = 8 -> "8" [] OTHER -> "9"

RECURSIVE IntText(_)
\* str(n) for n >= 0
IntText(n) == IF n < 10 THEN <<DigitChar(n)>> ELSE IntText(n \div 10) \o <<DigitChar(n % 10)>>

RECURSIVE Repr(_)
\* str(x) of a dict or list, repr(x) of what it holds: a dict is written in
\* insertion order
Repr(x) ==
    CASE x.t = "None" -> <<"N", "o", "n", "e">>
      [] x.t = "int"  -> IntText(x.v)
      [] x.t = "str"  -> <<"'">> \o x.v \o <<"'">>
      [] x.t = "list" ->
           <<"[">> \o Join([i \in 1..Len(x.v) |-> Repr(x.v[i])], <<",", " ">>) \o <<"]">>
      [] OTHER ->
           <<"{">> \o Join([i \in 1..Len(x.v) |->
                               <<"'">> \o x.v[i][1] \o <<"'", ":", " ">> \o Repr(x.v[i][2])],
                           <<",", " ">>) \o <<"}">>

(***************************************************************************)
(* json.loads, on the JSON the model's texts are written in: objects,       *)
(* arrays, strings without escapes, non-negative integers and null, with    *)
(* whitespace between tokens.  A parse returns [ok, val, pos, deep]: pos is *)
(* the 1-based position after the value.  The decoder recurses once for     *)
(* each object or array it enters and the interpreter bounds the recursion: *)
(* deep tells that the bound was passed, on which json.loads raises         *)
(* RecursionError, which is not a ValueError.                               *)
(***************************************************************************)

\* the nesting the decoder can enter before the interpreter's recursion limit
\* (sys.getrecursionlimit(), 1000 frames) is passed, scaled to the model's texts
RecursionLimit == 2

At(s, i) == IF i \in 1..Len(s) THEN s[i] ELSE ""

Digits == {"0", "1", "2", "3", "4", "5", "6", "7", "8", "9"}

ParseFail == [ok |-> FALSE, val |-> None, pos |-> 0, deep |-> FALSE]

ParseOk(val, pos) == [ok |-> TRUE, val |-> val, pos |-> pos, deep |-> FALSE]

RECURSIVE SkipWs(_, _)
\* the first position >= i that holds no whitespace
SkipWs(s, i) == IF IsSpace(At(s, i)) THEN SkipWs(s, i + 1) ELSE i

\* a string whose opening quote is at i - 1
ParseString(s, i) ==
    LET k == Find(s, <<"\"">>, i - 1) + 1
    IN  IF k = 0 \/ \E j \in i..(k - 1) : s[j] = "\n"
        THEN ParseFail
        ELSE ParseOk(PyStr(SubSeq(s, i, k - 1)), k + 1)

RECURSIVE ParseDigits(_, _, _)
ParseDigits(s, i, acc) ==
    IF At(s, i) \in Digits
    THEN ParseDigits(s, i + 1, 10 * acc + (CHOOSE n \in 0..9 : DigitChar(n) = s[i]))
    ELSE ParseOk(PyInt(acc), i)

\* a number whose first digit is at i; a leading 0 is a number by itself
ParseNumber(s, i) ==
    IF s[i] = "0" THEN ParseOk(PyInt(0), i + 1) ELSE ParseDigits(s, i, 0)

\* d is the number of objects and arrays entered
RECURSIVE ParseValue(_, _, _)
RECURSIVE ParseMembers(_, _, _, _)
RECURSIVE ParseElements(_, _, _, _)
RECURSIVE MemberEnd(_, _, _, _, _)
RECURSIVE MemberValue(_, _, _, _)
RECURSIVE ElementEnd(_, _, _, _)

\* after the value val of the member key: "," and the next member, or "}"
MemberEnd(s, acc, key, val, d) ==
    IF ~val.ok THEN val
    ELSE LET m == SkipWs(s, val.pos)
         IN  CASE At(s, m) = "," -> ParseMembers(s, m + 1, DictSet(acc, key.val.v, val.val), d)
               [] At(s, m) = "}" -> ParseOk(DictSet(acc, key.val.v, val.val), m + 1)
               [] OTHER          -> ParseFail

\* after the string key of a member: ":" and the value
MemberValue(s, acc, key, d) ==
    IF ~key.ok THEN ParseFail
    ELSE LET c == SkipWs(s, key.pos)
         IN  IF At(s, c) # ":" THEN ParseFail
             ELSE MemberEnd(s, acc, key, ParseValue(s, c + 1, d), d)

\* the members of an object after "{" or ",": "key" : value, then "," or "}"
ParseMembers(s, i, acc, d) ==
    LET j == SkipWs(s, i)
    IN  IF At(s, j) # "\"" THEN ParseFail
        ELSE MemberValue(s, acc, ParseString(s, j + 1), d)

\* after the element val of an array: "," and the next element, or "]"
ElementEnd(s, acc, val, d) ==
    IF ~val.ok THEN val
    ELSE LET m == SkipWs(s, val.pos)
         IN  CASE At(s, m) = "," -> ParseElements(s, m + 1, Append(acc, val.val), d)
               [] At(s, m) = "]" -> ParseOk(PyList(Append(acc, val.val)), m + 1)
               [] OTHER          -> ParseFail

\* the elements of an array after "[" or ",": value, then "," or "]"
ParseElements(s, i, acc, d) == ElementEnd(s, acc, ParseValue(s, i, d), d)

\* the value whose first character, c, is at j: an object or an array is
\* entered unless d of them were
ValueAt(s, j, c, d) ==
    CASE c \in {"{", "["} /\ d >= RecursionLimit ->
           [ok |-> FALSE, val |-> None, pos |-> 0, deep |-> TRUE]
      [] c = "{" ->
           IF At(s, SkipWs(s, j + 1)) = "}"
           THEN ParseOk(EmptyDict, SkipWs(s, j + 1) + 1)
           ELSE ParseMembers(s, j + 1, EmptyDict, d + 1)
      [] c = "[" ->
           IF At(s, SkipWs(s, j + 1)) = "]"
           THEN ParseOk(PyList(<<>>), SkipWs(s, j + 1) + 1)
           ELSE ParseElements(s, j + 1, <<>>, d + 1)
      [] c = "\"" -> ParseString(s, j + 1)
      [] c \in Digits -> ParseNumber(s, j)
      [] MatchAt(s, <<"n", "u", "l", "l">>, j - 1) -> ParseOk(None, j + 4)
      [] OTHER -> ParseFail

ParseValue(s, i, d) == ValueAt(s, SkipWs(s, i), At(s, SkipWs(s, i)), d)

\* the value parsed, when nothing but whitespace follows it
Whole(s, r) ==
    IF r.ok /\ SkipWs(s, r.pos) > Len(s)
    THEN [ok |-> TRUE, val |-> r.val, deep |-> FALSE]
    ELSE [ok |-> FALSE, val |-> None, deep |-> r.deep]

\* json.loads(s): [ok, val, deep]; ok = FALSE stands for json.JSONDecodeError
\* when deep = FALSE and for RecursionError when deep = TRUE
JsonLoads(s) == Whole(s, ParseValue(s, 1, 0))

(***************************************************************************)
(* The texts the provider answers with: prose, an empty object, two         *)
(* objects, an object whose matchScore is 101, an array, an array that is   *)
(* not closed, an array of something that is no value, and arrays nested    *)
(* beyond the recursion limit                                               *)
(***************************************************************************)

T ==
    [Prose |-> <<"s", "o", "r", "r", "y">>,
     EmptyObj |-> <<"{", "}">>,
     ObjName |-> <<"{", "\"", "n", "a", "m", "e", "\"", ":", "\"", "A", "l", "\"", "}">>,
     ObjScore |-> <<"{", "\"", "m", "a", "t", "c", "h", "S", "c", "o", "r", "e", "\"", ":", "8", "5", "}">>,
     ObjOver |-> <<"{", "\"", "m", "a", "t", "c", "h", "S", "c", "o", "r", "e", "\"", ":", "1", "0", "1", "}">>,
     Arr |-> <<"[", "{", "\"", "q", "u", "e", "s", "t", "i", "o", "n", "\"", ":", "\"", "q", "\"", "}", "]">>,
     Open |-> <<"[", "1">>,
     BadArr |-> <<"[", "x", "]">>,
     Deep |-> Rep("[", RecursionLimit + 1) \o <<"]">>]

(***************************************************************************)
(* _extract_json (gemini_service.py 37-61)                                  *)
(***************************************************************************)

\* the backquote, a character no TLA+ string can hold
BQ == "BQ"

Fence == <<BQ, BQ, BQ>>

\* the interior of the first fenced block as it is, not stripped
Unfence_unstripped(text) ==
    IF Contains(text, Fence \o <<"j", "s", "o", "n">>)
    THEN Slice(text, Find(text, Fence \o <<"j", "s", "o", "n">>, 0) + 7,
               Find(text, Fence, Find(text, Fence \o <<"j", "s", "o", "n">>, 0) + 7))
    ELSE IF Contains(text, Fence)
         THEN Slice(text, Find(text, Fence, 0) + 3, Find(text, Fence, Find(text, Fence, 0) + 3))
         ELSE text

\* lines 41-48: the interior of the first fenced block, stripped
Unfence(text) ==
    IF Contains(text, Fence \o <<"j", "s", "o", "n">>)
    THEN LET start == Find(text, Fence \o <<"j", "s", "o", "n">>, 0) + 7
             end   == Find(text, Fence, start)
         IN  Strip(Slice(text, start, end))
    ELSE IF Contains(text, Fence)
         THEN LET start == Find(text, Fence, 0) + 3
                  end   == Find(text, Fence, start)
              IN  Strip(Slice(text, start, end))
         ELSE text

\* lines 51-56: cut after the last closing brace or bracket
Truncate(text) ==
    IF MatchAt(text, <<"{">>, 0)
    THEN Slice(text, 0, RFind(text, <<"}">>) + 1)
    ELSE IF MatchAt(text, <<"[">>, 0)
         THEN Slice(text, 0, RFind(text, <<"]">>) + 1)
         ELSE text

\* json.loads(text) within `except (json.JSONDecodeError, ValueError)`: the
\* value, fallback when decoding fails, and RecursionError goes uncaught: the
\* exception stands in place of the value the function would return
Loaded(parsed, fallback) ==
    IF parsed.deep
    THEN [t |-> "exception", v |-> "RecursionError",
          msg |-> "maximum recursion depth exceeded"]
    ELSE IF parsed.ok THEN parsed.val
    ELSE fallback

\* the parsed value, or None when json.loads raises a decoding error (58-61)
_extract_json(text) == Loaded(JsonLoads(Truncate(Unfence(text))), None)

(***************************************************************************)
(* The result cache (django.core.cache) and the cache keys                  *)
(***************************************************************************)

CACHE_TIMEOUT_SHORT == 3600

CACHE_TIMEOUT_LONG == 86400

\* hash(text): Python salts str hashes with a seed drawn when the process
\* starts, so the digest is a function of the process's seed and the text.
\* Distinct (seed, text) pairs get distinct digests: collisions are left out.
hash(seed, text) == [seed |-> seed, text |-> text]

\* an f-string key: its literal prefix, the digests and the interpolated tail
CacheKey(prefix, hashes, tail) == [prefix |-> prefix, hashes |-> hashes, tail |-> tail]

\* cache.get(key) of a cache that keeps serving an entry after its ttl
cache_get_stale(c, t, key) ==
    IF key \in DOMAIN c THEN c[key].value ELSE None

\* cache.get(key): the value of a live entry, None otherwise
cache_get(c, t, key) ==
    IF key \in DOMAIN c /\ t < c[key].expires THEN c[key].value ELSE None

\* cache.set(key, value, timeout)
cache_set(c, t, key, value, timeout) ==
    [k \in DOMAIN c \cup {key} |->
        IF k = key THEN [value |-> value, expires |-> t + timeout] ELSE c[k]]

(***************************************************************************)
(* The handlers (gemini_service.py 89-461).  A handler is given the cache,  *)
(* the time, the process's hash seed, its arguments and the provider's      *)
(* answer resp = [ok, text] to the one prompt it may send; it yields        *)
(*   exc, msg : the exception raised and str(e), exc = "" on return         *)
(*   value    : the value returned                                          *)
(*   calls    : the calls made to the provider                              *)
(*   cache    : the cache afterwards                                        *)
(*   gets, sets : the cache.get and cache.set calls made                    *)
(*   key      : the cache key computed, NoKey when none was                 *)
(*   answer   : the provider's answer, when the provider was called         *)
(* The prompt text is not modelled: the provider may answer anything.       *)
(***************************************************************************)

\* the keys of the dicts, as the characters they are written with
K ==
    [name |-> <<"n", "a", "m", "e">>,
     email |-> <<"e", "m", "a", "i", "l">>,
     skills |-> <<"s", "k", "i", "l", "l", "s">>,
     matchScore |-> <<"m", "a", "t", "c", "h", "S", "c", "o", "r", "e">>,
     title |-> <<"t", "i", "t", "l", "e">>,
     company |-> <<"c", "o", "m", "p", "a", "n", "y">>,
     keywords |-> <<"k", "e", "y", "w", "o", "r", "d", "s">>,
     location |-> <<"l", "o", "c", "a", "t", "i", "o", "n">>,
     jobType |-> <<"j", "o", "b", "T", "y", "p", "e">>,
     experienceLevel |-> <<"e", "x", "p", "e", "r", "i", "e", "n", "c", "e", "L", "e", "v", "e", "l">>,
     salaryMin |-> <<"s", "a", "l", "a", "r", "y", "M", "i", "n">>,
     salaryMax |-> <<"s", "a", "l", "a", "r", "y", "M", "a", "x">>,
     resume_text |-> <<"r", "e", "s", "u", "m", "e", "_", "t", "e", "x", "t">>,
     job_id |-> <<"j", "o", "b", "_", "i", "d">>,
     candidate_profile |-> <<"c", "a", "n", "d", "i", "d", "a", "t", "e", "_", "p", "r", "o", "f", "i", "l", "e">>,
     query |-> <<"q", "u", "e", "r", "y">>,
     role |-> <<"r", "o", "l", "e">>,
     experience_level |-> <<"e", "x", "p", "e", "r", "i", "e", "n", "c", "e", "_", "l", "e", "v", "e", "l">>,
     salaryRange |-> <<"s", "a", "l", "a", "r", "y", "R", "a", "n", "g", "e">>,
     questions |-> <<"q", "u", "e", "s", "t", "i", "o", "n", "s">>,
     id |-> <<"i", "d">>,
     data |-> <<"d", "a", "t", "a">>]

NoKey == CacheKey("", <<>>, <<>>)

\* no answer: the provider was not called
NoAnswer == [ok |-> FALSE, text |-> <<>>]

Raise(exc, msg, c, calls, gets, key) ==
    [exc |-> exc, msg |-> msg, value |-> None, calls |-> calls, cache |-> c,
     gets |-> gets, sets |-> 0, key |-> key, answer |-> NoAnswer]

Return(value, c, calls, sets, key) ==
    [exc |-> "", msg |-> "", value |-> value, calls |-> calls, cache |-> c,
     gets |-> 1, sets |-> sets, key |-> key, answer |-> NoAnswer]

\* field in x, for the x on which `in` is defined
In(field, x) ==
    CASE x.t = "dict" -> field \in Keys(x)
      [] x.t = "list" -> \E i \in 1..Len(x.v) : x.v[i] = PyStr(field)
      [] OTHER        -> Contains(x.v, field)

RECURSIVE SetDefaults(_, _)
\* lines 153-155 on a dict: each absent field is set, in the order given
SetDefaults(d, fields) ==
    IF fields = <<>> THEN d
    ELSE LET f == Head(fields)
         IN  SetDefaults(IF f \in Keys(d) THEN d
                         ELSE DictSet(d, f, IF f # K.skills THEN PyStr(<<>>) ELSE PyList(<<>>)),
                         Tail(fields))

required_fields == <<K.name, K.email, K.skills>>

\* `if cached_result: return cached_result`, then _generate_content: a truthy
\* cached value is returned; otherwise the provider is called once, and when it
\* answers the handler goes on with miss
Lookup(c, t, cache_key, resp, miss) ==
    IF Truthy(cache_get(c, t, cache_key))
    THEN Return(cache_get(c, t, cache_key), c, 0, 0, cache_key)
    ELSE IF ~resp.ok
    THEN [Raise("Exception", "AI generation failed: provider error", c, 1, 1, cache_key)
             EXCEPT !.answer = resp]
    ELSE [miss EXCEPT !.answer = resp]

\* `cache.set(cache_key, result, timeout)` and `return result`
Store(c, t, cache_key, result, timeout) ==
    Return(result, cache_set(c, t, cache_key, result, timeout), 1, 1, cache_key)

\* lines 146-160: the extracted value is checked, completed and cached
parse_resume_parsed(c, t, cache_key, parsed_data) ==
    IF parsed_data.t = "exception"
    THEN Raise(parsed_data.v, parsed_data.msg, c, 1, 1, cache_key)
    ELSE IF ~Truthy(parsed_data)
    THEN Raise("Exception", "Could not parse resume data from AI response", c, 1, 1, cache_key)
    ELSE IF parsed_data.t = "int"
    THEN Raise("TypeError", "argument of type 'int' is not iterable", c, 1, 1, cache_key)
    ELSE IF parsed_data.t # "dict"
            /\ \E i \in 1..Len(required_fields) : ~In(required_fields[i], parsed_data)
    THEN Raise("TypeError", "object does not support item assignment", c, 1, 1, cache_key)
    ELSE Store(c, t, cache_key,
               IF parsed_data.t = "dict" THEN SetDefaults(parsed_data, required_fields)
               ELSE parsed_data,
               CACHE_TIMEOUT_SHORT)

\* parse_resume with the length taken of the text as given, not of the trimmed text
parse_resume_untrimmed(c, t, seed, resume_text, resp) ==
    IF resume_text = <<>> \/ Len(resume_text) < 50
    THEN Raise("ValueError", "Resume text is too short or empty", c, 0, 0, NoKey)
    ELSE LET cache_key == CacheKey("resume_parse_", <<hash(seed, resume_text)>>, <<>>)
         IN  Lookup(c, t, cache_key, resp,
                    parse_resume_parsed(c, t, cache_key, _extract_json(resp.text)))

parse_resume(c, t, seed, resume_text, resp) ==
    IF resume_text = <<>> \/ Len(Strip(resume_text)) < 50
    THEN Raise("ValueError", "Resume text is too short or empty", c, 0, 0, NoKey)
    ELSE LET cache_key == CacheKey("resume_parse_", <<hash(seed, resume_text)>>, <<>>)
         IN  Lookup(c, t, cache_key, resp,
                    parse_resume_parsed(c, t, cache_key, _extract_json(resp.text)))

\* lines 216-226
calculate_job_match_parsed(c, t, cache_key, match_data) ==
    IF match_data.t = "exception"
    THEN Raise(match_data.v, match_data.msg, c, 1, 1, cache_key)
    ELSE IF ~Truthy(match_data)
    THEN Raise("Exception", "Could not calculate job match from AI response", c, 1, 1, cache_key)
    ELSE IF match_data.t = "int"
    THEN Raise("TypeError", "argument of type 'int' is not iterable", c, 1, 1, cache_key)
    ELSE IF match_data.t # "dict" /\ ~In(K.matchScore, match_data)
    THEN Raise("TypeError", "object does not support item assignment", c, 1, 1, cache_key)
    ELSE Store(c, t, cache_key,
               IF match_data.t = "dict" /\ K.matchScore \notin Keys(match_data)
               THEN DictSet(match_data, K.matchScore, PyInt(50))
               ELSE match_data,
               CACHE_TIMEOUT_SHORT)

calculate_job_match(c, t, seed, candidate_profile, job_requirements, resp) ==
    IF candidate_profile.t # "dict" \/ job_requirements.t # "dict"
    THEN Raise("AttributeError", "object has no attribute 'get'", c, 0, 0, NoKey)
    ELSE IF ~Truthy(DictGet(candidate_profile, K.skills, None))
            \/ ~Truthy(DictGet(job_requirements, K.skills, None))
    THEN Raise("ValueError", "Both candidate and job must have skills defined", c, 0, 0, NoKey)
    ELSE LET cache_key ==
                 CacheKey("job_match_",
                          <<hash(seed, Repr(candidate_profile)),
                            hash(seed, Repr(job_requirements))>>,
                          <<>>)
         IN  Lookup(c, t, cache_key, resp,
                    calculate_job_match_parsed(c, t, cache_key, _extract_json(resp.text)))

\* lines 272-280
generate_job_description_parsed(c, t, cache_key, job_desc) ==
    IF job_desc.t = "exception"
    THEN Raise(job_desc.v, job_desc.msg, c, 1, 1, cache_key)
    ELSE IF ~Truthy(job_desc)
    THEN Raise("Exception", "Could not generate job description from AI response",
               c, 1, 1, cache_key)
    ELSE Store(c, t, cache_key, job_desc, CACHE_TIMEOUT_LONG)

generate_job_description(c, t, seed, job_info, resp) ==
    IF ~Truthy(DictGet(job_info, K.title, None))
    THEN Raise("ValueError", "Job title is required", c, 0, 0, NoKey)
    ELSE LET cache_key == CacheKey("job_desc_", <<hash(seed, Repr(job_info))>>, <<>>)
         IN  Lookup(c, t, cache_key, resp,
                    generate_job_description_parsed(c, t, cache_key,
                                                    _extract_json(resp.text)))

\* the strings of query.split() as a list
SplitList(words) == PyList([i \in 1..Len(words) |-> PyStr(words[i])])

\* the keyword fallback with the query kept whole as its one keyword
FallbackFilters_unsplit(query) ==
    PyDict(<< <<K.keywords, PyList(<<PyStr(query)>>)>>,
              <<K.location, None>>,
              <<K.jobType, None>>,
              <<K.experienceLevel, None>>,
              <<K.salaryMin, None>>,
              <<K.salaryMax, None>>,
              <<K.skills, PyList(<<>>)>> >>)

\* lines 328-336: the keyword fallback
FallbackFilters(query) ==
    PyDict(<< <<K.keywords, SplitList(Split(query))>>,
              <<K.location, None>>,
              <<K.jobType, None>>,
              <<K.experienceLevel, None>>,
              <<K.salaryMin, None>>,
              <<K.salaryMax, None>>,
              <<K.skills, PyList(<<>>)>> >>)

\* the fallback returned and not stored: only a parsed filter is cached
parse_search_query_parsed_unstored(c, t, cache_key, query, filters) ==
    IF filters.t = "exception"
    THEN Raise(filters.v, filters.msg, c, 1, 1, cache_key)
    ELSE IF ~Truthy(filters)
    THEN Return(FallbackFilters(query), c, 1, 0, cache_key)
    ELSE Store(c, t, cache_key, filters, CACHE_TIMEOUT_LONG)

\* lines 324-341
parse_search_query_parsed(c, t, cache_key, query, filters) ==
    IF filters.t = "exception"
    THEN Raise(filters.v, filters.msg, c, 1, 1, cache_key)
    ELSE Store(c, t, cache_key, IF ~Truthy(filters) THEN FallbackFilters(query) ELSE filters,
               CACHE_TIMEOUT_LONG)

parse_search_query(c, t, seed, query, resp) ==
    IF query = <<>> \/ Len(Strip(query)) < 2
    THEN Raise("ValueError", "Search query is too short", c, 0, 0, NoKey)
    ELSE LET cache_key == CacheKey("search_parse_", <<hash(seed, query)>>, <<>>)
         IN  Lookup(c, t, cache_key, resp,
                    parse_search_query_parsed(c, t, cache_key, query,
                                              _extract_json(resp.text)))

\* lines 388-398: the array between the first "[" and the last "]", or []
ExtractQuestions(result) ==
    IF Contains(result, <<"[">>)
    THEN Loaded(JsonLoads(Slice(result, Find(result, <<"[">>, 0),
                                RFind(result, <<"]">>) + 1)),
                PyList(<<>>))
    ELSE PyList(<<>>)

\* lines 387-403
generate_interview_questions_parsed(c, t, cache_key, questions) ==
    IF questions.t = "exception"
    THEN Raise(questions.v, questions.msg, c, 1, 1, cache_key)
    ELSE Store(c, t, cache_key, questions, CACHE_TIMEOUT_LONG)

generate_interview_questions(c, t, seed, role, skills, experience_level, resp) ==
    IF role = <<>>
    THEN Raise("ValueError", "Role is required", c, 0, 0, NoKey)
    ELSE LET cache_key ==
                 CacheKey("interview_", <<hash(seed, role), hash(seed, Repr(skills))>>,
                          experience_level)
         IN  Lookup(c, t, cache_key, resp,
                    generate_interview_questions_parsed(c, t, cache_key,
                                                        ExtractQuestions(resp.text)))

\* lines 453-461
get_salary_insights_parsed(c, t, cache_key, insights) ==
    IF insights.t = "exception"
    THEN Raise(insights.v, insights.msg, c, 1, 1, cache_key)
    ELSE IF ~Truthy(insights)
    THEN Raise("Exception", "Could not get salary insights from AI response", c, 1, 1, cache_key)
    ELSE Store(c, t, cache_key, insights, CACHE_TIMEOUT_LONG)

get_salary_insights(c, t, seed, role, location, experience_level, resp) ==
    IF role = <<>>
    THEN Raise("ValueError", "Role is required", c, 0, 0, NoKey)
    ELSE LET cache_key ==
                 CacheKey("salary_", <<hash(seed, role), hash(seed, location)>>,
                          experience_level)
         IN  Lookup(c, t, cache_key, resp,
                    get_salary_insights_parsed(c, t, cache_key, _extract_json(resp.text)))

(***************************************************************************)
(* The inputs: the provider's answers and the callers' arguments            *)
(***************************************************************************)

\* the words the callers send
Word ==
    [py |-> <<"p", "y">>,
     Dev |-> <<"D", "e", "v">>,
     Acme |-> <<"A", "c", "m", "e">>,
     Accra |-> <<"A", "c", "c", "r", "a">>,
     mid |-> <<"m", "i", "d">>,
     Africa |-> <<"A", "f", "r", "i", "c", "a">>]

Q_Two == <<"p", "y", " ", " ", "d", "e", "v">>

\* the provider fails (any transport, authentication or upstream error), or
\* answers with prose, an empty object, an object, or an array
ProviderFailure == [ok |-> FALSE, text |-> <<>>]

\* what the provider may do with the prompt of each operation
ProviderOutcomes(op) ==
    {ProviderFailure} \cup
    {[ok |-> TRUE, text |-> x] :
        x \in CASE op = "resume-parse"        -> {T.Prose, T.EmptyObj, T.ObjName, T.Arr}
               [] op = "job-match"           -> {T.Prose, T.EmptyObj, T.ObjName, T.ObjScore,
                                                 T.ObjOver}
               [] op = "job-description"     -> {T.Prose, T.ObjName, T.Arr}
               [] op = "search-parse"        -> {T.Prose, T.EmptyObj, T.ObjName}
               [] op = "interview-questions" -> {T.Prose, T.Arr, T.Open, T.BadArr, T.Deep}
               [] OTHER                      -> {T.Prose, T.ObjName, T.Deep}}

\* resume texts: empty, 49 characters between blanks, 50 characters
R_Padded == <<" ">> \o Rep("a", 49) \o <<" ">>

R_Ok == Rep("a", 50)

\* candidate profiles: P_Full and P_Swapped are equal dicts built in two orders
P_Full == PyDict(<< <<K.skills, PyList(<<PyStr(Word.py)>>)>>, <<K.location, PyStr(Word.Accra)>> >>)

P_Swapped == PyDict(<< <<K.location, PyStr(Word.Accra)>>, <<K.skills, PyList(<<PyStr(Word.py)>>)>> >>)

J_Dev == PyDict(<< <<K.title, PyStr(Word.Dev)>>, <<K.skills, PyList(<<PyStr(Word.py)>>)>> >>)

\* search queries: empty, one character after a blank, two words
Queries == {<<>>, <<" ", "a">>, Q_Two}

(***************************************************************************)
(* The stored rows the views read                                           *)
(***************************************************************************)

\* the authenticated user of every request
User == "u1"

\* the Job rows, with the fields of jobs/models.py; no job has id 2
Jobs == 1 :> [title |-> Word.Dev, location |-> Word.Accra, salary_range |-> <<>>,
              skills |-> PyList(<<PyStr(Word.py)>>)]

\* the files of the user's Resume rows; the user has no resume 3
ResumeFiles == (1 :> R_Ok) @@ (2 :> R_Padded)

(***************************************************************************)
(* The state                                                                *)
(***************************************************************************)

VARIABLES
    cache,          \* the result cache: key -> [value, expires]
    now,            \* the time, in seconds
    seed,           \* the hash seed of the running process
    usageLog,       \* the AIUsageLog rows, in the order written
    parsedResumes,  \* the ParsedResume rows, in the order written
    jobMatches,     \* the JobMatch row of the user for each job that has one
    resumes,        \* the user's Resume rows: pk -> [parsed_data, is_primary]
    invocations,    \* the calls made so far
    steps,          \* the steps taken so far: calls, clock advances, restarts
    last,           \* what the last call was given and what it did
    pending,        \* the request that waits for the provider's answer
    extraction,     \* a text given to _extract_json and what the extractor made of it
    workers,        \* the concurrent workers: what each runs and where it stands
    users,          \* the User rows: username -> [email, role]
    auth,           \* the last request given to SupabaseAuthentication and its outcome
    review          \* a CompanyReview row and the users with a ReviewHelpful row for it

vars ==
    <<cache, now, seed, usageLog, parsedResumes, jobMatches, resumes, invocations, steps, last,
      pending, extraction, workers, users, auth, review>>

\* the bound of the model: the steps of a behaviour
MaxSteps == 3

\* the workers that serve requests at the same time
Workers == {1, 2}

\* whether the cache holds an entry for key whose ttl has not elapsed
Live(c, t, key) == key \in DOMAIN c /\ t < c[key].expires

\* a handler that was not called
NotCalled == Raise("", "", cache, 0, 0, NoKey)

\* an HTTP response: the status, the body's data or its error and detail;
\* fault: an exception left the view
Response(status, data, error, detail) ==
    [status |-> status, data |-> data, error |-> error, detail |-> detail, fault |-> FALSE]

\* one call: of the view or method entry ("" for a direct call of a handler),
\* its arguments, the response, the usage rows it wrote, and what the handler
\* op did (h, a handler's result) when it was called; live: the cache held an
\* entry for the key within its ttl, stale: one whose ttl had elapsed
Observed(entry, op, args, called, h, resp, logged) ==
    [entry |-> entry, op |-> op, args |-> args, seed |-> seed, at |-> now,
     status |-> resp.status, data |-> resp.data, error |-> resp.error,
     detail |-> resp.detail, fault |-> resp.fault, logged |-> logged,
     called |-> called, live |-> called /\ Live(cache, now, h.key),
     stale |-> called /\ h.key \in DOMAIN cache /\ ~Live(cache, now, h.key),
     exc |-> h.exc, msg |-> h.msg, value |-> h.value, calls |-> h.calls,
     gets |-> h.gets, sets |-> h.sets, key |-> h.key, answer |-> h.answer]

NoCall ==
    [entry |-> "", op |-> "", args |-> <<>>, seed |-> 0, at |-> 0,
     status |-> 0, data |-> None, error |-> "", detail |-> "", fault |-> FALSE,
     logged |-> 0, called |-> FALSE, live |-> FALSE, stale |-> FALSE,
     exc |-> "", msg |-> "", value |-> None, calls |-> 0,
     gets |-> 0, sets |-> 0, key |-> NoKey, answer |-> NoAnswer]

\* a worker between calls.  pc: where the worker stands; h: what its handler
\* did; runs, calls: the handler calls and provider calls it made; made: the
\* cache entries it wrote
Resting ==
    [pc |-> "rest", op |-> "", args |-> <<>>, h |-> NotCalled, runs |-> 0, calls |-> 0,
     made |-> {}]

\* no request was authenticated yet.  outcome: "user" when authenticate returns
\* (user, None), "None" when it returns None, "AuthenticationFailed" when it
\* raises; user: the username of the user returned
NoAuth ==
    [header |-> "", token |-> <<>>, keyed |-> FALSE, outcome |-> "", user |-> "", detail |-> ""]

\* no request waits for the provider
Idle == [entry |-> "", data |-> None, silent |-> FALSE]

Init ==
    /\ cache = <<>>
    /\ now = 0
    /\ seed = 1
    /\ usageLog = <<>>
    /\ parsedResumes = <<>>
    /\ jobMatches = <<>>
    /\ resumes = [pk \in DOMAIN ResumeFiles |-> [parsed_data |-> None, is_primary |-> FALSE]]
    /\ invocations = 0
    /\ steps = 0
    /\ last = NoCall
    /\ pending = Idle
    \* no text was given to the extractor
    /\ extraction = [fence |-> "", lead |-> <<>>, body |-> <<>>, trail |-> <<>>, text |-> <<>>,
                     done |-> FALSE, result |-> None, bare |-> None]
    /\ workers = [w \in Workers |-> Resting]
    /\ users = (User :> [email |-> "u1@x", role |-> "SEEKER"])
    /\ auth = NoAuth
    /\ review = [helpful_count |-> 0, votes |-> {}]

\* time passes: the clock advances by the short timeout or by the long one
Advance ==
    /\ steps < MaxSteps
    /\ steps' = steps + 1
    /\ \E d \in {CACHE_TIMEOUT_SHORT, CACHE_TIMEOUT_LONG} : now' = now + d
    /\ UNCHANGED <<cache, seed, usageLog, parsedResumes, jobMatches, resumes, invocations, last,
                   pending, extraction, workers, users, auth, review>>

\* the process is restarted: a hash seed not drawn before; the cache is that of
\* the backend, which either outlives the process (a shared store) or starts empty
Restart ==
    /\ steps < MaxSteps
    /\ steps' = steps + 1
    /\ seed' = seed + 1
    /\ cache' \in {cache, <<>>}
    /\ UNCHANGED <<now, usageLog, parsedResumes, jobMatches, resumes, invocations, last,
                   pending, extraction, workers, users, auth, review>>

\* the provider answers only when it is called: the answers a call of a handler
\* can meet, h0 being what the handler does when the provider fails
Answers(op, h0) == IF h0.calls = 0 THEN {ProviderFailure} ELSE ProviderOutcomes(op)

(***************************************************************************)
(* The handlers called directly, with any arguments                         *)
(***************************************************************************)

Called(op, args, h) ==
    /\ steps' = steps + 1
    /\ invocations' = invocations + 1
    /\ cache' = h.cache
    /\ last' = Observed("", op, args, TRUE, h, Response(0, None, "", ""), 0)
    /\ UNCHANGED <<now, seed, usageLog, parsedResumes, jobMatches, resumes, pending, extraction,
                   workers, users, auth, review>>

\* each handler called with any of its arguments
HandlerNext ==
    \/ /\ steps < MaxSteps
       /\ \E text \in {<<>>, R_Padded, R_Ok} :
           \E resp \in Answers("resume-parse", parse_resume(cache, now, seed, text, ProviderFailure)) :
             Called("resume-parse", <<PyStr(text)>>, parse_resume(cache, now, seed, text, resp))
    \/ /\ steps < MaxSteps
       /\ \E in \in {<<P_Full, J_Dev>>, <<P_Swapped, J_Dev>>,
                     <<PyDict(<< <<K.location, PyStr(Word.Accra)>> >>), J_Dev>>,
                     <<P_Full, PyDict(<< <<K.title, PyStr(Word.Dev)>>,
                                         <<K.skills, PyList(<<>>)>> >>)>>} :
           \E resp \in Answers("job-match",
                               calculate_job_match(cache, now, seed, in[1], in[2], ProviderFailure)) :
             Called("job-match", <<in[1], in[2]>>,
                    calculate_job_match(cache, now, seed, in[1], in[2], resp))
    \/ /\ steps < MaxSteps
       /\ \E info \in {PyDict(<< <<K.title, PyStr(Word.Dev)>>, <<K.company, PyStr(Word.Acme)>> >>),
                       PyDict(<< <<K.company, PyStr(Word.Acme)>> >>),
                       PyDict(<< <<K.title, PyStr(<<>>)>> >>)} :
           \E resp \in Answers("job-description",
                               generate_job_description(cache, now, seed, info, ProviderFailure)) :
             Called("job-description", <<info>>,
                    generate_job_description(cache, now, seed, info, resp))
    \/ /\ steps < MaxSteps
       /\ \E query \in Queries :
           \E resp \in Answers("search-parse",
                               parse_search_query(cache, now, seed, query, ProviderFailure)) :
             Called("search-parse", <<PyStr(query)>>, parse_search_query(cache, now, seed, query, resp))
    \/ /\ steps < MaxSteps
       /\ \E role \in {<<>>, Word.Dev}, skills \in {PyList(<<PyStr(Word.py)>>)} :
           \E resp \in Answers("interview-questions",
                               generate_interview_questions(cache, now, seed, role, skills, Word.mid,
                                                            ProviderFailure)) :
             Called("interview-questions", <<PyStr(role), skills, PyStr(Word.mid)>>,
                    generate_interview_questions(cache, now, seed, role, skills, Word.mid, resp))
    \/ /\ steps < MaxSteps
       /\ \E role \in {<<>>, Word.Dev} :
           \E resp \in Answers("salary-insight",
                               get_salary_insights(cache, now, seed, role, Word.Africa, Word.mid,
                                                   ProviderFailure)) :
             Called("salary-insight", <<PyStr(role), PyStr(Word.Africa), PyStr(Word.mid)>>,
                    get_salary_insights(cache, now, seed, role, Word.Africa, Word.mid, resp))
    \/ Advance
    \/ Restart

HandlerSpec == Init /\ [][HandlerNext]_vars

(***************************************************************************)
(* The request serializers                                                  *)
(***************************************************************************)

\* a CharField: the value is a string, which the field trims; a blank one is
\* rejected unless allow_blank, and the trimmed length is within the limits
CharField(data, key, allow_blank, min_length, max_length) ==
    /\ key \in Keys(data)
    /\ DictGet(data, key, None).t = "str"
    /\ LET value == Strip(DictGet(data, key, None).v)
       IN  /\ allow_blank \/ value # <<>>
           /\ value = <<>> \/ Len(value) >= min_length
           /\ Len(value) <= max_length

\* a field that is not required and is absent is valid
Optional(data, key, valid) == key \notin Keys(data) \/ valid

\* the validated data: the fields present, in the order the serializer declares
\* them, a string trimmed as its CharField hands it on
RECURSIVE Validated(_, _)
Validated(data, fields) ==
    IF fields = <<>> THEN <<>>
    ELSE LET key == Head(fields)
             v   == DictGet(data, key, None)
         IN  (IF key \in Keys(data)
              THEN << <<key, IF v.t = "str" THEN PyStr(Strip(v.v)) ELSE v>> >>
              ELSE <<>>) \o Validated(data, Tail(fields))

ResumeParseRequestSerializer(data) ==
    [is_valid |-> CharField(data, K.resume_text, FALSE, 50, 50000),
     validated_data |-> PyDict(Validated(data, <<K.resume_text>>))]

JobMatchRequestSerializer(data) ==
    [is_valid |-> /\ K.job_id \in Keys(data)
                  /\ DictGet(data, K.job_id, None).t = "int"
                  /\ K.candidate_profile \in Keys(data)
                  /\ DictGet(data, K.candidate_profile, None) # None,
     validated_data |-> PyDict(Validated(data, <<K.job_id, K.candidate_profile>>))]

JobDescriptionRequestSerializer(data) ==
    [is_valid |-> /\ CharField(data, K.title, FALSE, 0, 200)
                  /\ Optional(data, K.company, CharField(data, K.company, TRUE, 0, 200))
                  /\ Optional(data, K.location, CharField(data, K.location, TRUE, 0, 200)),
     validated_data |-> PyDict(Validated(data, <<K.title, K.company, K.location>>))]

SearchParseRequestSerializer(data) ==
    [is_valid |-> CharField(data, K.query, FALSE, 2, 500),
     validated_data |-> PyDict(Validated(data, <<K.query>>))]

InterviewQuestionsRequestSerializer(data) ==
    [is_valid |-> /\ CharField(data, K.role, FALSE, 0, 200)
                  /\ Optional(data, K.skills, DictGet(data, K.skills, None).t = "list")
                  /\ Optional(data, K.experience_level,
                              CharField(data, K.experience_level, TRUE, 0, 50)),
     validated_data |-> PyDict(Validated(data, <<K.role, K.skills, K.experience_level>>))]

SalaryInsightsRequestSerializer(data) ==
    [is_valid |-> /\ CharField(data, K.role, FALSE, 0, 200)
                  /\ Optional(data, K.location, CharField(data, K.location, TRUE, 0, 200))
                  /\ Optional(data, K.experience_level,
                              CharField(data, K.experience_level, TRUE, 0, 50)),
     validated_data |-> PyDict(Validated(data, <<K.role, K.location, K.experience_level>>))]

(***************************************************************************)
(* The request bodies                                                       *)
(***************************************************************************)

Body1(k, v) == PyDict(<< <<k, v>> >>)

Body2(k1, v1, k2, v2) == PyDict(<< <<k1, v1>>, <<k2, v2>> >>)

\* the bodies sent to each view.  job_match: job 1 exists, job 2 does not, and
\* one candidate profile has no skills;
\* job_description: the same fields sent in the two orders, and a body without
\* a title
Bodies ==
    [resume |-> {EmptyDict, Body1(K.resume_text, PyStr(R_Padded)),
                 Body1(K.resume_text, PyStr(R_Ok))},
     job_match |-> {Body1(K.job_id, PyInt(1)),
                    Body2(K.job_id, PyInt(1), K.candidate_profile, P_Full),
                    Body2(K.job_id, PyInt(1), K.candidate_profile,
                          PyDict(<< <<K.location, PyStr(Word.Accra)>> >>)),
                    Body2(K.job_id, PyInt(2), K.candidate_profile, P_Full)},
     job_description |-> {Body1(K.company, PyStr(Word.Acme)),
                          Body2(K.title, PyStr(Word.Dev), K.company, PyStr(Word.Acme)),
                          Body2(K.company, PyStr(Word.Acme), K.title, PyStr(Word.Dev))},
     search |-> {Body1(K.query, PyStr(q)) : q \in Queries},
     interview |-> {EmptyDict, Body1(K.role, PyStr(Word.Dev)),
                    Body2(K.role, PyStr(Word.Dev), K.skills, PyList(<<PyStr(Word.py)>>))},
     salary |-> {EmptyDict, Body1(K.role, PyStr(Word.Dev))}]

(***************************************************************************)
(* The views                                                                *)
(***************************************************************************)

\* log_ai_usage: one row of AIUsageLog is written
log_ai_usage(log, service_type, success, error_message) ==
    Append(log, [user |-> User, service_type |-> service_type, success |-> success,
                 error_message |-> error_message])

\* the outcome of the database writes of one request: persist, the write of the
\* result row; log, the usage row written in the try block; errlog, the usage
\* row written in the except block
DbOk == [persist |-> TRUE, log |-> TRUE, errlog |-> TRUE]

\* the result row cannot be written; the usage row of the try block cannot, and
\* that of the except block can; no usage row can
DbOutcomes ==
    {DbOk,
     [persist |-> FALSE, log |-> TRUE, errlog |-> TRUE],
     [persist |-> TRUE, log |-> FALSE, errlog |-> TRUE],
     [persist |-> TRUE, log |-> FALSE, errlog |-> FALSE]}

DbError == "database error"

\* what a view does: its response and the stores it leaves
Done(resp, c, log, pr, jm, rs) ==
    [resp |-> resp, cache |-> c, usageLog |-> log, parsedResumes |-> pr,
     jobMatches |-> jm, resumes |-> rs]

\* the serializer's errors are returned
BadRequest ==
    Done(Response(400, None, "invalid", ""), cache, usageLog, parsedResumes, jobMatches, resumes)

\* an except block that logs the view's own error text in place of str(e)
Except_generic(service_type, error, msg, c, pr, jm, db) ==
    IF db.errlog
    THEN Done(Response(500, None, error, msg), c,
              log_ai_usage(usageLog, service_type, FALSE, PyStr(error)), pr, jm, resumes)
    ELSE Done([status |-> 500, data |-> None, error |-> "", detail |-> "", fault |-> TRUE],
              c, usageLog, pr, jm, resumes)

\* the except block of a view: the failure is logged and returned
Except(service_type, error, msg, c, pr, jm, db) ==
    IF db.errlog
    THEN Done(Response(500, None, error, msg), c,
              log_ai_usage(usageLog, service_type, FALSE, PyStr(msg)), pr, jm, resumes)
    ELSE Done([status |-> 500, data |-> None, error |-> "", detail |-> "", fault |-> TRUE],
              c, usageLog, pr, jm, resumes)

\* the try block of a view once the handler has returned and the result is
\* stored: the use is logged and the data returned
Try(service_type, error, data, c, pr, jm, db) ==
    IF db.log
    THEN Done(Response(200, data, "", ""), c,
              log_ai_usage(usageLog, service_type, TRUE, None), pr, jm, resumes)
    ELSE Except(service_type, error, DbError, c, pr, jm, db)

\* a view that stores nothing: the handler's result or its exception
Plain(service_type, error, h, data, db) ==
    IF h.exc # ""
    THEN Except(service_type, error, h.msg, h.cache, parsedResumes, jobMatches, db)
    ELSE Try(service_type, error, data, h.cache, parsedResumes, jobMatches, db)

\* one request served
Served(entry, op, args, called, h, done) ==
    /\ steps' = steps + 1
    /\ invocations' = invocations + 1
    /\ cache' = done.cache
    /\ usageLog' = done.usageLog
    /\ parsedResumes' = done.parsedResumes
    /\ jobMatches' = done.jobMatches
    /\ resumes' = done.resumes
    /\ last' = Observed(entry, op, args, called, h, done.resp,
                        Len(done.usageLog) - Len(usageLog))
    /\ pending' = Idle
    /\ UNCHANGED <<now, seed, extraction, workers, users, auth, review>>

\* lines 64-86, h being what parse_resume did
parse_resume_view_try(data, resume_text, db, h) ==
    Served("parse_resume_view", "resume-parse", <<data>>, TRUE, h,
           IF h.exc # ""
           THEN Except("resume_parse", "Failed to parse resume", h.msg, h.cache,
                       parsedResumes, jobMatches, db)
           ELSE IF ~db.persist
           THEN Except("resume_parse", "Failed to parse resume", DbError, h.cache,
                       parsedResumes, jobMatches, db)
           ELSE Try("resume_parse", "Failed to parse resume",
                    Body2(K.id, PyInt(Len(parsedResumes) + 1), K.data, h.value), h.cache,
                    Append(parsedResumes,
                           [id |-> Len(parsedResumes) + 1, user |-> User,
                            raw_text |-> resume_text, parsed_data |-> h.value]),
                    jobMatches, db))

parse_resume_view(dbs) ==
    /\ steps < MaxSteps
    /\ \E data \in Bodies.resume, db \in dbs :
        IF ~ResumeParseRequestSerializer(data).is_valid
        THEN /\ db = DbOk
             /\ Served("parse_resume_view", "resume-parse", <<data>>, FALSE, NotCalled, BadRequest)
        ELSE LET resume_text ==
                     DictGet(ResumeParseRequestSerializer(data).validated_data,
                             K.resume_text, None).v
             IN  \E resp \in Answers("resume-parse",
                                     parse_resume(cache, now, seed, resume_text,
                                                  ProviderFailure)) :
                   parse_resume_view_try(data, resume_text, db,
                                         parse_resume(cache, now, seed, resume_text, resp))

\* lines 180-192
generate_job_description_view_try(data, db, h) ==
    Served("generate_job_description_view", "job-description", <<data>>, TRUE, h,
           Plain("job_description", "Failed to generate job description", h, h.value, db))

generate_job_description_view(dbs) ==
    /\ steps < MaxSteps
    /\ \E data \in Bodies.job_description, db \in dbs :
        IF ~JobDescriptionRequestSerializer(data).is_valid
        THEN /\ db = DbOk
             /\ Served("generate_job_description_view", "job-description", <<data>>, FALSE,
                       NotCalled, BadRequest)
        ELSE LET job_info == JobDescriptionRequestSerializer(data).validated_data
             IN  \E resp \in Answers("job-description",
                                     generate_job_description(cache, now, seed, job_info,
                                                              ProviderFailure)) :
                   generate_job_description_view_try(
                       data, db, generate_job_description(cache, now, seed, job_info, resp))

\* lines 213-225
parse_search_query_view_try(data, db, h) ==
    Served("parse_search_query_view", "search-parse", <<data>>, TRUE, h,
           Plain("search_parse", "Failed to parse search query", h, h.value, db))

parse_search_query_view(dbs) ==
    /\ steps < MaxSteps
    /\ \E data \in Bodies.search, db \in dbs :
        IF ~SearchParseRequestSerializer(data).is_valid
        THEN /\ db = DbOk
             /\ Served("parse_search_query_view", "search-parse", <<data>>, FALSE,
                       NotCalled, BadRequest)
        ELSE LET query ==
                     DictGet(SearchParseRequestSerializer(data).validated_data, K.query, None).v
             IN  \E resp \in Answers("search-parse",
                                     parse_search_query(cache, now, seed, query,
                                                        ProviderFailure)) :
                   parse_search_query_view_try(
                       data, db, parse_search_query(cache, now, seed, query, resp))

\* lines 252-266
generate_interview_questions_view_try(data, db, h) ==
    Served("generate_interview_questions_view", "interview-questions", <<data>>, TRUE, h,
           Plain("interview_questions", "Failed to generate interview questions",
                 h, Body1(K.questions, h.value), db))

generate_interview_questions_view(dbs) ==
    /\ steps < MaxSteps
    /\ \E data \in Bodies.interview, db \in dbs :
        IF ~InterviewQuestionsRequestSerializer(data).is_valid
        THEN /\ db = DbOk
             /\ Served("generate_interview_questions_view", "interview-questions", <<data>>,
                       FALSE, NotCalled, BadRequest)
        ELSE LET validated_data == InterviewQuestionsRequestSerializer(data).validated_data
                 role == DictGet(validated_data, K.role, None).v
                 skills == DictGet(validated_data, K.skills, PyList(<<>>))
                 experience_level ==
                     DictGet(validated_data, K.experience_level, PyStr(Word.mid)).v
             IN  \E resp \in Answers("interview-questions",
                                     generate_interview_questions(
                                         cache, now, seed, role, skills, experience_level,
                                         ProviderFailure)) :
                   generate_interview_questions_view_try(
                       data, db,
                       generate_interview_questions(
                           cache, now, seed, role, skills, experience_level, resp))

\* lines 293-305
get_salary_insights_view_try(data, db, h) ==
    Served("get_salary_insights_view", "salary-insight", <<data>>, TRUE, h,
           Plain("salary_insights", "Failed to get salary insights", h, h.value, db))

get_salary_insights_view(dbs) ==
    /\ steps < MaxSteps
    /\ \E data \in Bodies.salary, db \in dbs :
        IF ~SalaryInsightsRequestSerializer(data).is_valid
        THEN /\ db = DbOk
             /\ Served("get_salary_insights_view", "salary-insight", <<data>>, FALSE,
                       NotCalled, BadRequest)
        ELSE LET validated_data == SalaryInsightsRequestSerializer(data).validated_data
                 role == DictGet(validated_data, K.role, None).v
                 location == DictGet(validated_data, K.location, PyStr(Word.Africa)).v
                 experience_level ==
                     DictGet(validated_data, K.experience_level, PyStr(Word.mid)).v
             IN  \E resp \in Answers("salary-insight",
                                     get_salary_insights(
                                         cache, now, seed, role, location, experience_level,
                                         ProviderFailure)) :
                   get_salary_insights_view_try(
                       data, db,
                       get_salary_insights(
                           cache, now, seed, role, location, experience_level, resp))

\* the first attribute the view reads of the job that the row does not have
MissingAttribute(job) ==
    IF "title" \notin DOMAIN job THEN "title"
    ELSE IF "required_skills" \notin DOMAIN job THEN "required_skills"
    ELSE IF "experience_level" \notin DOMAIN job THEN "experience_level"
    ELSE IF "location" \notin DOMAIN job THEN "location"
    ELSE IF "salary_min" \notin DOMAIN job THEN "salary_min"
    ELSE IF job.salary_min # 0 /\ "salary_max" \notin DOMAIN job THEN "salary_max"
    ELSE ""

\* lines 120-126: the requirements handed to the handler
JobRequirements(job) ==
    PyDict(<< <<K.title, PyStr(job.title)>>,
              <<K.skills, IF Truthy(job.required_skills) THEN job.required_skills
                          ELSE PyList(<<>>)>>,
              <<K.experienceLevel, PyStr(job.experience_level)>>,
              <<K.location, PyStr(job.location)>>,
              <<K.salaryRange,
                IF job.salary_min # 0
                THEN PyStr(<<"$">> \o IntText(job.salary_min) \o <<"-", "$">>
                           \o IntText(job.salary_max))
                ELSE PyStr(<<"N", "e", "g", "o", "t", "i", "a", "b", "l", "e">>)>> >>)

\* lines 131-138: the user's match for the job is created or replaced
update_or_create(jm, job_id, match_score, match_data) ==
    [j \in DOMAIN jm \cup {job_id} |->
       IF j = job_id THEN [match_score |-> match_score, match_data |-> match_data]
       ELSE jm[j]]

\* lines 128-153, h being what calculate_job_match did
calculate_job_match_view_try(data, job_id, db, h) ==
    Served("calculate_job_match_view", "job-match", <<data>>, TRUE, h,
           IF h.exc # ""
           THEN Except("job_match", "Failed to calculate job match", h.msg,
                       h.cache, parsedResumes, jobMatches, db)
           ELSE IF h.value.t # "dict"
           THEN Except("job_match", "Failed to calculate job match",
                       "'list' object has no attribute 'get'",
                       h.cache, parsedResumes, jobMatches, db)
           ELSE IF DictGet(h.value, K.matchScore, PyInt(50)).t # "int"
           THEN Except("job_match", "Failed to calculate job match",
                       "Field 'match_score' expected a number",
                       h.cache, parsedResumes, jobMatches, db)
           ELSE IF ~db.persist
           THEN Except("job_match", "Failed to calculate job match", DbError,
                       h.cache, parsedResumes, jobMatches, db)
           ELSE Try("job_match", "Failed to calculate job match", h.value, h.cache,
                    parsedResumes,
                    update_or_create(jobMatches, job_id,
                                     DictGet(h.value, K.matchScore, PyInt(50)).v, h.value),
                    db))

\* lines 117-128: the job is read, and the handler called when every attribute
\* the view reads exists
calculate_job_match_view_valid(data, job_id, candidate_profile, db) ==
    IF job_id \notin DOMAIN Jobs
    THEN /\ db = DbOk
         /\ Served("calculate_job_match_view", "job-match", <<data>>, FALSE, NotCalled,
                   Done(Response(404, None, "Job not found", ""), cache, usageLog,
                        parsedResumes, jobMatches, resumes))
    ELSE IF MissingAttribute(Jobs[job_id]) # ""
    THEN Served("calculate_job_match_view", "job-match", <<data>>, FALSE, NotCalled,
                Except("job_match", "Failed to calculate job match",
                       "'Job' object has no attribute '" \o MissingAttribute(Jobs[job_id])
                           \o "'",
                       cache, parsedResumes, jobMatches, db))
    ELSE \E resp \in Answers("job-match",
                             calculate_job_match(cache, now, seed, candidate_profile,
                                                 JobRequirements(Jobs[job_id]),
                                                 ProviderFailure)) :
           calculate_job_match_view_try(
               data, job_id, db,
               calculate_job_match(cache, now, seed, candidate_profile,
                                   JobRequirements(Jobs[job_id]), resp))

calculate_job_match_view(dbs) ==
    /\ steps < MaxSteps
    /\ \E data \in Bodies.job_match, db \in dbs :
        IF ~JobMatchRequestSerializer(data).is_valid
        THEN /\ db = DbOk
             /\ Served("calculate_job_match_view", "job-match", <<data>>, FALSE,
                       NotCalled, BadRequest)
        ELSE calculate_job_match_view_valid(
                 data,
                 DictGet(JobMatchRequestSerializer(data).validated_data, K.job_id, None).v,
                 DictGet(JobMatchRequestSerializer(data).validated_data, K.candidate_profile, None),
                 db)

\* Resume.save: a primary resume unsets the user's other primary resumes
ResumeSave(rs, pk, row) ==
    [k \in DOMAIN rs |->
       IF k = pk THEN row
       ELSE IF row.is_primary THEN [rs[k] EXCEPT !.is_primary = FALSE]
       ELSE rs[k]]

\* users/views.py 70-90, h being what parse_resume did: nothing is logged
ResumeViewSet_parse_try(pk, db, h) ==
    Served("ResumeViewSet.parse", "resume-parse", <<PyInt(pk)>>, TRUE, h,
           IF h.exc # ""
           THEN Done(Response(500, None, "Failed to parse resume", h.msg),
                     h.cache, usageLog, parsedResumes, jobMatches, resumes)
           ELSE IF ~db.persist
           THEN Done(Response(500, None, "Failed to parse resume", DbError),
                     h.cache, usageLog, parsedResumes, jobMatches, resumes)
           ELSE Done(Response(200, h.value, "", ""), h.cache, usageLog,
                     parsedResumes, jobMatches,
                     ResumeSave(resumes, pk, [resumes[pk] EXCEPT !.parsed_data = h.value])))

ResumeViewSet_parse(dbs) ==
    /\ steps < MaxSteps
    /\ \E pk \in {1, 2, 3}, db \in dbs :
        IF pk \notin DOMAIN resumes
        THEN /\ db = DbOk
             /\ Served("ResumeViewSet.parse", "resume-parse", <<PyInt(pk)>>, FALSE, NotCalled,
                       Done(Response(404, None, "Not found.", ""), cache, usageLog,
                            parsedResumes, jobMatches, resumes))
        ELSE \E resp \in Answers("resume-parse",
                                 parse_resume(cache, now, seed, ResumeFiles[pk],
                                              ProviderFailure)) :
               ResumeViewSet_parse_try(pk, db,
                                       parse_resume(cache, now, seed, ResumeFiles[pk], resp))

\* the requests, every database write succeeding
Next ==
    \/ parse_resume_view({DbOk})
    \/ calculate_job_match_view({DbOk})
    \/ generate_job_description_view({DbOk})
    \/ parse_search_query_view({DbOk})
    \/ generate_interview_questions_view({DbOk})
    \/ get_salary_insights_view({DbOk})
    \/ ResumeViewSet_parse({DbOk})
    \/ Advance
    \/ Restart

Spec == Init /\ [][Next]_vars

\* the requests, any database write failing
FaultNext ==
    \/ parse_resume_view(DbOutcomes)
    \/ calculate_job_match_view(DbOutcomes)
    \/ generate_job_description_view(DbOutcomes)
    \/ parse_search_query_view(DbOutcomes)
    \/ generate_interview_questions_view(DbOutcomes)
    \/ get_salary_insights_view(DbOutcomes)
    \/ ResumeViewSet_parse(DbOutcomes)
    \/ Advance
    \/ Restart

FaultSpec == Init /\ [][FaultNext]_vars

(***************************************************************************)
(* The provider call as a wait (_generate_content, gemini_service.py        *)
(* 77-86): a request whose handler calls the provider waits for the answer. *)
(* generate_content is called with the prompt and the generation            *)
(* configuration only: the code sets no timeout, so a wait ends when the    *)
(* provider answers or fails, or when the client library gives the call up, *)
(* which the code does not control.                                         *)
(***************************************************************************)

\* a request arrives at parse_resume_view or get_salary_insights_view, its
\* serializer accepts it and its handler, on a miss, sends the prompt
Begin ==
    /\ steps < MaxSteps
    /\ pending = Idle
    /\ \/ /\ parse_resume(cache, now, seed, R_Ok, ProviderFailure).calls = 1
          /\ pending' = [entry |-> "parse_resume_view",
                          data |-> Body1(K.resume_text, PyStr(R_Ok)), silent |-> FALSE]
       \/ /\ get_salary_insights(cache, now, seed, Word.Dev, Word.Africa, Word.mid,
                                  ProviderFailure).calls = 1
          /\ pending' = [entry |-> "get_salary_insights_view",
                          data |-> Body1(K.role, PyStr(Word.Dev)), silent |-> FALSE]
    /\ UNCHANGED <<cache, now, seed, usageLog, parsedResumes, jobMatches, resumes, invocations,
                   steps, last, extraction, workers, users, auth, review>>

\* the waiting request goes on with the provider's answer resp
Resume(resp) ==
    IF pending.entry = "parse_resume_view"
    THEN parse_resume_view_try(pending.data, R_Ok, DbOk,
                               parse_resume(cache, now, seed, R_Ok, resp))
    ELSE get_salary_insights_view_try(
             pending.data, DbOk,
             get_salary_insights(cache, now, seed, Word.Dev, Word.Africa, Word.mid, resp))

\* the provider answers or fails
Respond ==
    /\ pending # Idle /\ ~pending.silent
    /\ \E resp \in ProviderOutcomes(IF pending.entry = "parse_resume_view"
                                     THEN "resume-parse" ELSE "salary-insight") :
         Resume(resp)

\* the provider will never answer this call
Silence ==
    /\ pending # Idle /\ ~pending.silent
    /\ pending' = [pending EXCEPT !.silent = TRUE]
    /\ UNCHANGED <<cache, now, seed, usageLog, parsedResumes, jobMatches, resumes, invocations,
                   steps, last, extraction, workers, users, auth, review>>

\* the client library gives the call up and raises, which _generate_content
\* re-raises like any provider error; nothing in the code makes this happen
GiveUp ==
    /\ pending # Idle /\ pending.silent
    /\ Resume(ProviderFailure)

TimeoutNext ==
    \/ Begin
    \/ Respond
    \/ Silence
    \/ GiveUp
    \/ Advance

\* a provider that has not gone silent answers, and the worker goes on
TimeoutSpec == Init /\ [][TimeoutNext]_vars /\ WF_vars(Respond)

\* the handler of the operation op applied to the arguments of a direct call
Handle(op, args, c, t, sd, resp) ==
    CASE op = "resume-parse"    -> parse_resume(c, t, sd, args[1].v, resp)
      [] op = "job-match"       -> calculate_job_match(c, t, sd, args[1], args[2], resp)
      [] op = "job-description" -> generate_job_description(c, t, sd, args[1], resp)
      [] op = "search-parse"    -> parse_search_query(c, t, sd, args[1].v, resp)
      [] op = "interview-questions" ->
           generate_interview_questions(c, t, sd, args[1].v, args[2], args[3].v, resp)
      [] OTHER -> get_salary_insights(c, t, sd, args[1].v, args[2].v, args[3].v, resp)

(***************************************************************************)
(* Concurrent calls of the handlers (gemini_service.py 89-461).  The workers *)
(* share the cache.  A handler reads the cache once (cache.get), and on a    *)
(* miss calls the provider, extracts and completes the answer, and writes    *)
(* the cache once (cache.set): the two cache operations are the steps that   *)
(* other workers can come between.                                           *)
(***************************************************************************)

\* the worker calls a handler (each operation with one list of arguments, and
\* resume-parse with a text that is too short as well), which runs up to the
\* provider call: h0 is what the handler does when the provider fails, so
\* h0.calls = 0 says that the handler ends without the provider (input
\* rejected, or served from the cache)
Enter(w) ==
    /\ steps < MaxSteps
    /\ workers[w].pc = "rest"
    /\ \E call \in
           {<<"resume-parse", <<PyStr(R_Ok)>>>>,
            <<"resume-parse", <<PyStr(R_Padded)>>>>,
            <<"job-match", <<P_Full, J_Dev>>>>,
            <<"job-description", <<J_Dev>>>>,
            <<"search-parse", <<PyStr(Q_Two)>>>>,
            <<"interview-questions",
              <<PyStr(Word.Dev), PyList(<<PyStr(Word.py)>>), PyStr(Word.mid)>>>>,
            <<"salary-insight", <<PyStr(Word.Dev), PyStr(Word.Africa), PyStr(Word.mid)>>>>} :
         LET h0 == Handle(call[1], call[2], cache, now, seed, ProviderFailure)
         IN  workers' = [workers EXCEPT ![w] =
                           [pc |-> IF h0.calls = 0 THEN "rest" ELSE "calling",
                            op |-> call[1], args |-> call[2], h |-> h0,
                            runs |-> @.runs + 1, calls |-> @.calls + h0.calls,
                            made |-> @.made]]
    /\ steps' = steps + 1
    /\ invocations' = invocations + 1
    /\ UNCHANGED <<cache, now, seed, usageLog, parsedResumes, jobMatches, resumes, last, pending,
                   extraction, users, auth, review>>

\* the provider answers the worker's call and the handler runs to its end, h
\* being what it does after a miss: the entry it writes replaces the one that
\* another worker may have written since this worker read the cache
Finish(w, h) ==
    /\ cache' = IF h.sets = 1 THEN (h.key :> h.cache[h.key]) @@ cache ELSE cache
    /\ workers' = [workers EXCEPT ![w] =
                      [@ EXCEPT !.pc = "rest", !.h = h,
                                !.made = IF h.sets = 1
                                         THEN @ \cup {<<h.key, h.value>>} ELSE @]]
    /\ UNCHANGED <<now, seed, usageLog, parsedResumes, jobMatches, resumes, invocations, steps,
                   last, pending, extraction, users, auth, review>>

Answer(w) ==
    /\ workers[w].pc = "calling"
    /\ \E resp \in ProviderOutcomes(workers[w].op) :
         Finish(w, Handle(workers[w].op, workers[w].args, <<>>, now, seed, resp))

ConcurrentNext ==
    \/ \E w \in Workers : Enter(w)
    \/ \E w \in Workers : Answer(w)
    \/ Advance

ConcurrentSpec == Init /\ [][ConcurrentNext]_vars

(***************************************************************************)
(* Concurrent writes of the user's resumes (users/models.py 70-74,           *)
(* users/views.py 50-61).  A worker loads the row, and each statement it     *)
(* then sends to the database is a step: the update that unsets the primary  *)
(* resumes, and the write of the row it holds.                               *)
(***************************************************************************)

\* a request for one of the user's resumes arrives and get_object loads the
\* row: set_primary, or an update through the serializer that saves the row
\* with the is_primary sent.  The worker then holds the row in h
Open(w) ==
    /\ steps < MaxSteps
    /\ workers[w].pc = "rest"
    /\ \E pk \in DOMAIN resumes, op \in {"set_primary", "save"}, is_primary \in BOOLEAN :
         /\ op = "set_primary" => is_primary
         /\ workers' = [workers EXCEPT ![w] =
                           [@ EXCEPT !.pc = IF op = "set_primary" THEN "unset" ELSE "save",
                                     !.op = op, !.args = <<pk>>,
                                     !.h = [resumes[pk] EXCEPT !.is_primary = is_primary],
                                     !.runs = @ + 1]]
    /\ steps' = steps + 1
    /\ UNCHANGED <<cache, now, seed, usageLog, parsedResumes, jobMatches, resumes, invocations,
                   last, pending, extraction, users, auth, review>>

\* `Resume.objects.filter(user=..., is_primary=True).update(is_primary=False)`:
\* the statement of set_primary (views.py 56), after which the view calls save,
\* and the statement of save (models.py 72-73), sent when the row held is primary
Unset(w) ==
    /\ workers[w].pc \in {"unset", "save"}
    /\ resumes' = IF workers[w].pc = "unset" \/ workers[w].h.is_primary
                  THEN [pk \in DOMAIN resumes |-> [resumes[pk] EXCEPT !.is_primary = FALSE]]
                  ELSE resumes
    /\ workers' = [workers EXCEPT ![w].pc = IF @ = "unset" THEN "save" ELSE "write"]
    /\ UNCHANGED <<cache, now, seed, usageLog, parsedResumes, jobMatches, invocations, steps,
                   last, pending, extraction, users, auth, review>>

\* `super().save()` (models.py 74): the row held is written
Write(w) ==
    /\ workers[w].pc = "write"
    /\ resumes' = [resumes EXCEPT ![workers[w].args[1]] = workers[w].h]
    /\ workers' = [workers EXCEPT ![w].pc = "rest"]
    /\ UNCHANGED <<cache, now, seed, usageLog, parsedResumes, jobMatches, invocations, steps,
                   last, pending, extraction, users, auth, review>>

ResumeNext ==
    \/ \E w \in Workers : Open(w)
    \/ \E w \in Workers : Unset(w)
    \/ \E w \in Workers : Write(w)

ResumeSpec == Init /\ [][ResumeNext]_vars

(***************************************************************************)
(* Helpful marks of a review (companies/views.py 93-114, companies/models.py *)
(* 129-140).  review.votes is the set of users with a ReviewHelpful row of   *)
(* the review, one row a user at most by unique_together.  Each statement a  *)
(* request sends to the database is a step.                                  *)
(***************************************************************************)

\* `review = get_object_or_404(CompanyReview, id=review_id)`: a request of the
\* user arrives and the worker holds a copy of the review row
Load(w) ==
    /\ steps < MaxSteps
    /\ workers[w].pc = "rest"
    /\ \E user \in {"u1", "u2"} :
         workers' = [workers EXCEPT ![w] =
                        [@ EXCEPT !.pc = "get_or_create", !.op = "mark_review_helpful",
                                  !.args = <<user>>,
                                  !.h = [helpful_count |-> review.helpful_count],
                                  !.runs = @ + 1]]
    /\ steps' = steps + 1
    /\ UNCHANGED <<cache, now, seed, usageLog, parsedResumes, jobMatches, resumes, invocations,
                   last, pending, extraction, users, auth, review>>

\* `ReviewHelpful.objects.get_or_create(review=review, user=request.user)`: the
\* row is created unless the user has one.  When created the copy's count is
\* raised (views.py 106), otherwise the row is to be deleted
GetOrCreate(w) ==
    /\ workers[w].pc = "get_or_create"
    /\ LET created == workers[w].args[1] \notin review.votes
       IN  /\ review' = [review EXCEPT !.votes = @ \cup {workers[w].args[1]}]
           /\ workers' = [workers EXCEPT ![w] =
                             [@ EXCEPT !.pc = IF created THEN "save" ELSE "delete",
                                       !.h = IF created
                                             THEN [helpful_count |-> @.helpful_count + 1]
                                             ELSE @]]
    /\ UNCHANGED <<cache, now, seed, usageLog, parsedResumes, jobMatches, resumes, invocations,
                   steps, last, pending, extraction, users, auth>>

\* `helpful.delete()` and `review.helpful_count = max(0, review.helpful_count - 1)`
\* (views.py 111-112): deleting a row that is gone deletes nothing
Delete(w) ==
    /\ workers[w].pc = "delete"
    /\ review' = [review EXCEPT !.votes = @ \ {workers[w].args[1]}]
    /\ workers' = [workers EXCEPT ![w] =
                      [@ EXCEPT !.pc = "save",
                                !.h = [helpful_count |->
                                          IF @.helpful_count - 1 > 0
                                          THEN @.helpful_count - 1 ELSE 0]]]
    /\ UNCHANGED <<cache, now, seed, usageLog, parsedResumes, jobMatches, resumes, invocations,
                   steps, last, pending, extraction, users, auth>>

\* `review.save()` (views.py 107, 113): the copy's count is written to the row
Save(w) ==
    /\ workers[w].pc = "save"
    /\ workers[w].op = "mark_review_helpful"
    /\ review' = [review EXCEPT !.helpful_count = workers[w].h.helpful_count]
    /\ workers' = [workers EXCEPT ![w].pc = "rest"]
    /\ UNCHANGED <<cache, now, seed, usageLog, parsedResumes, jobMatches, resumes, invocations,
                   steps, last, pending, extraction, users, auth>>

HelpfulNext ==
    \/ \E w \in Workers : Load(w)
    \/ \E w \in Workers : GetOrCreate(w)
    \/ \E w \in Workers : Delete(w)
    \/ \E w \in Workers : Save(w)

HelpfulSpec == Init /\ [][HelpfulNext]_vars

(***************************************************************************)
(* Authentication (users/authentication.py).  A token is modelled by what   *)
(* jwt.decode finds in it: wellformed, three segments that decode to a JSON  *)
(* header and a JSON object; alg, the algorithm of its header; signed, its   *)
(* signature is that of the configured secret; expired, its exp claim is     *)
(* past; aud, sub and role, the claims aud, sub and user_metadata.role, ""   *)
(* for a claim the token does not carry.                                     *)
(***************************************************************************)

\* the tokens a request can carry; one token is not a JWT
Tokens ==
    {[wellformed |-> FALSE, alg |-> "", signed |-> FALSE, expired |-> FALSE, aud |-> "",
      sub |-> "", role |-> ""]}
    \cup [wellformed : {TRUE}, alg : {"HS256", "RS256"}, signed : BOOLEAN, expired : BOOLEAN,
          aud : {"authenticated", ""}, sub : {"", "u1", "u2"}, role : {"", "EMPLOYER"}]

\* jwt.decode(token, key, algorithms=["HS256"], audience="authenticated") when
\* verify, jwt.decode(token, options={"verify_signature": False}) otherwise,
\* which checks neither the signature nor the claims: the exception raised,
\* "" when the payload is returned.  keyed: the setting SUPABASE_JWT_SECRET
\* holds a secret
jwt_decode(token, keyed, verify) ==
    IF ~verify THEN (IF token.wellformed THEN "" ELSE "DecodeError")
    ELSE IF ~keyed THEN "AttributeError"
    ELSE IF ~token.wellformed THEN "DecodeError"
    ELSE IF token.alg # "HS256" THEN "InvalidAlgorithmError"
    ELSE IF ~token.signed THEN "DecodeError"
    ELSE IF token.expired THEN "ExpiredSignatureError"
    ELSE IF token.aud # "authenticated" THEN "InvalidAudienceError"
    ELSE ""

\* what authenticate does: its outcome and the User rows it leaves
Authenticated(outcome, user, detail, us) ==
    [outcome |-> outcome, user |-> user, detail |-> detail, users |-> us]

\* lines 39-52, the payload being decoded: the user of the sub claim is read, or
\* created with the role of the token; a token without sub names no user, the
\* row cannot be written and the error is swallowed by line 58
SyncUser(us, token) ==
    IF token.sub = "" THEN Authenticated("None", "", "", us)
    ELSE IF token.sub \in DOMAIN us THEN Authenticated("user", token.sub, "", us)
    ELSE Authenticated("user", token.sub, "",
                       (token.sub :> [email |-> token.sub \o "@x",
                                      role |-> IF token.role = "" THEN "SEEKER"
                                               ELSE token.role]) @@ us)

\* lines 54-59: the exception exc left the try block
AuthExcept(exc, us) ==
    IF exc = "ExpiredSignatureError"
    THEN Authenticated("AuthenticationFailed", "", "Token has expired", us)
    ELSE IF exc = "DecodeError"
    THEN Authenticated("AuthenticationFailed", "", "Error decoding token", us)
    ELSE Authenticated("None", "", "", us)

\* authenticate without the except clause of lines 34-37
authenticate_verified(us, header, token, keyed) ==
    IF header = "" THEN Authenticated("None", "", "", us)
    ELSE IF header = "bare" THEN AuthExcept("IndexError", us)
    ELSE IF jwt_decode(token, keyed, TRUE) = "" THEN SyncUser(us, token)
    ELSE AuthExcept(jwt_decode(token, keyed, TRUE), us)

\* SupabaseAuthentication.authenticate.  header: "" when the request has no
\* Authorization header, "bare" when the header holds no blank, "Bearer" when
\* the token follows a blank
authenticate(us, header, token, keyed) ==
    IF header = "" THEN Authenticated("None", "", "", us)
    ELSE IF header = "bare" THEN AuthExcept("IndexError", us)
    ELSE IF jwt_decode(token, keyed, TRUE) = "" THEN SyncUser(us, token)
    ELSE IF jwt_decode(token, keyed, TRUE) \in {"DecodeError", "ExpiredSignatureError"}
    THEN (IF jwt_decode(token, keyed, FALSE) = "" THEN SyncUser(us, token)
          ELSE AuthExcept(jwt_decode(token, keyed, FALSE), us))
    ELSE AuthExcept(jwt_decode(token, keyed, TRUE), us)

\* a request is authenticated
Authenticate ==
    /\ steps < MaxSteps
    /\ steps' = steps + 1
    /\ \E header \in {"", "bare", "Bearer"}, token \in Tokens, keyed \in BOOLEAN :
         /\ header # "Bearer" => (~token.wellformed /\ keyed)
         /\ users' = authenticate(users, header, token, keyed).users
         /\ auth' = [header |-> header, token |-> token, keyed |-> keyed,
                     outcome |-> authenticate(users, header, token, keyed).outcome,
                     user |-> authenticate(users, header, token, keyed).user,
                     detail |-> authenticate(users, header, token, keyed).detail]
    /\ UNCHANGED <<cache, now, seed, usageLog, parsedResumes, jobMatches, resumes, invocations,
                   last, pending, extraction, workers, review>>

AuthSpec == Init /\ [][Authenticate]_vars

(***************************************************************************)
(* The extractor alone: a text is given to _extract_json.  The text is      *)
(* built of a body, whitespace before it, commentary after it and a fence   *)
(* around the three.                                                        *)
(***************************************************************************)

\* the bodies: an object, the empty object, an array, an object and an array
\* that are not closed, prose, nothing, a number, arrays nested beyond the
\* recursion limit
Body ==
    [Obj |-> <<"{", "\"", "a", "\"", ":", "1", "}">>,
     EmptyObj |-> <<"{", "}">>,
     Arr |-> <<"[", "1", "]">>,
     OpenObj |-> <<"{", "\"", "a", "\"", ":", "1">>,
     OpenArr |-> <<"[", "1">>,
     Prose |-> <<"n", "o">>,
     Nothing |-> <<>>,
     Number |-> <<"7">>,
     Deep |-> Rep("[", RecursionLimit + 1) \o <<"]">>]

\* fence: none, a fenced block, a block labelled json, a labelled block that is
\* not closed; trail: nothing, commentary, commentary that holds a "}"
ExtractInputs ==
    [fence : {"none", "plain", "json", "open"},
     lead  : {<<>>, <<" ">>},
     body  : {Body[b] : b \in DOMAIN Body},
     trail : {<<>>, <<" ", "o", "k">>, <<" ", "}">>}]

\* the text within the fence
Inner(p) == p.lead \o p.body \o p.trail

\* the text given to the extractor
Assemble(p) ==
    CASE p.fence = "none"  -> Inner(p)
      [] p.fence = "plain" -> Fence \o <<"\n">> \o Inner(p) \o <<"\n">> \o Fence
      [] p.fence = "json"  ->
           Fence \o <<"j", "s", "o", "n", "\n">> \o Inner(p) \o <<"\n">> \o Fence
      [] OTHER             -> Fence \o <<"j", "s", "o", "n", "\n">> \o Inner(p)

ExtractInit ==
    /\ cache = <<>>
    /\ now = 0
    /\ seed = 1
    /\ usageLog = <<>>
    /\ parsedResumes = <<>>
    /\ jobMatches = <<>>
    /\ resumes = [pk \in DOMAIN ResumeFiles |-> [parsed_data |-> None, is_primary |-> FALSE]]
    /\ invocations = 0
    /\ steps = 0
    /\ last = NoCall
    /\ pending = Idle
    /\ workers = [w \in Workers |-> Resting]
    /\ users = (User :> [email |-> "u1@x", role |-> "SEEKER"])
    /\ auth = NoAuth
    /\ review = [helpful_count |-> 0, votes |-> {}]
    /\ \E p \in ExtractInputs :
         extraction = [fence |-> p.fence, lead |-> p.lead, body |-> p.body, trail |-> p.trail,
                       text |-> Assemble(p), done |-> FALSE, result |-> None, bare |-> None]

\* _extract_json is applied to the text, and to the text within the fence
Extract ==
    /\ ~extraction.done
    /\ extraction' = [extraction EXCEPT !.done = TRUE,
                                        !.result = _extract_json(extraction.text),
                                        !.bare = _extract_json(Inner(extraction))]
    /\ UNCHANGED <<cache, now, seed, usageLog, parsedResumes, jobMatches, resumes, invocations,
                   steps, last, pending, workers, users, auth, review>>

ExtractSpec == ExtractInit /\ [][Extract]_vars

(***************************************************************************)
(* The properties                                                           *)
(***************************************************************************)

RECURSIVE PyEq(_, _)
\* x == y in Python: dicts are equal whatever the order of their items
PyEq(x, y) ==
    /\ x.t = y.t
    /\ CASE x.t = "dict" -> /\ Keys(x) = Keys(y)
                            /\ \A k \in Keys(x) : PyEq(DictGet(x, k, None), DictGet(y, k, None))
         [] x.t = "list" -> /\ Len(x.v) = Len(y.v)
                            /\ \A i \in 1..Len(x.v) : PyEq(x.v[i], y.v[i])
         [] OTHER        -> x.v = y.v

\* two argument lists equal field for field
SameInputs(a, b) == Len(a) = Len(b) /\ \A i \in 1..Len(a) : PyEq(a[i], b[i])

\* a call was made in this step
Invoked == invocations' = invocations + 1

\* the last usage row
LastRecord == usageLog[Len(usageLog)]

\* the required input of the operation is missing or invalid
InvalidInput(op, args) ==
    CASE op = "resume-parse"    -> Len(Strip(args[1].v)) < 50
      [] op = "job-match"       -> \/ ~Truthy(DictGet(args[1], K.skills, None))
                                   \/ ~Truthy(DictGet(args[2], K.skills, None))
      [] op = "job-description" -> ~Truthy(DictGet(args[1], K.title, None))
      [] op = "search-parse"    -> Len(Strip(args[1].v)) < 2
      [] OTHER                  -> args[1].v = <<>>

\* the provider was called and failed
ProviderFailed(l) == l.calls = 1 /\ ~l.answer.ok

\* the provider answered, and what the extractor made of the answer
Extracted(l) == _extract_json(l.answer.text)

Answered(l) == l.calls = 1 /\ l.answer.ok

\* C1: every invocation of an entry point, whatever its outcome, appends exactly
\* one usage record: after N invocations the usage log holds N records.
C1_OneRecordPerInvocation == Len(usageLog) = invocations

\* C2: when a handler call returned successfully and the next call of the same
\* handler in the same process has equal inputs and finds the entry within its
\* ttl, the second call makes no provider call and returns the same value.
C2_SecondCallFromCache ==
    [][(/\ Invoked
        /\ last.op # "" /\ last.exc = ""
        /\ last'.op = last.op /\ last'.seed = last.seed
        /\ SameInputs(last'.args, last.args) /\ last'.key = last.key
        /\ last'.live)
       => (last'.calls = 0 /\ last'.exc = "" /\ PyEq(last'.value, last.value))]_vars

\* the shape of the results of the operation whose keys have this prefix
ExpectedShape(prefix) == IF prefix = "interview_" THEN "list" ELSE "dict"

\* C3: every entry of the cache holds a value of the shape of its operation:
\* a list for interview-questions, an object for the five others.
C3_CacheHoldsValidated ==
    \A key \in DOMAIN cache : cache[key].value.t = ExpectedShape(key.prefix)

\* C4: two calls of a handler whose inputs are equal field for field compute the
\* same cache key, whatever the order of the fields of a mapping and whichever
\* process serves the call.
C4_KeyDeterministic ==
    [][(/\ Invoked
        /\ last.op # "" /\ last'.op = last.op
        /\ last.key # NoKey /\ last'.key # NoKey
        /\ SameInputs(last'.args, last.args))
       => last'.key = last.key]_vars

\* C5: a handler given a missing or invalid required input raises ValueError
\* without calling the provider, reading the cache or writing it.
C5_RejectedUntouched ==
    [][(Invoked /\ InvalidInput(last'.op, last'.args))
       => (/\ last'.exc = "ValueError"
           /\ last'.calls = 0 /\ last'.gets = 0 /\ last'.sets = 0
           /\ cache' = cache)]_vars

\* a resume of 51 characters, 49 once trimmed, was rejected while the cache
\* held an entry
C5_Witness ==
    /\ last.op = "resume-parse" /\ last.args = <<PyStr(R_Padded)>>
    /\ last.exc = "ValueError"
    /\ cache # <<>>

\* C6: whatever the database writes do, no invocation ends in an unhandled
\* fault: the response is a result, or an error whose failure was logged.
C6_TypedResultOrLoggedError ==
    last.entry # ""
    => /\ ~last.fault
       /\ last.status # 200 => (last.logged = 1 /\ ~LastRecord.success)

\* C7: when the provider call fails, the invocation writes a usage record with
\* success = false and a non-empty error message, answers with a failure that
\* carries a detail, and leaves the cache as it was.
C7_ProviderFailureLogged ==
    [][(Invoked /\ last'.entry # "" /\ ProviderFailed(last'))
       => (/\ last'.logged = 1
           /\ ~usageLog'[Len(usageLog')].success
           /\ usageLog'[Len(usageLog')].error_message.t = "str"
           /\ usageLog'[Len(usageLog')].error_message.v # ""
           /\ last'.status = 500 /\ last'.error # "" /\ last'.detail # ""
           /\ cache' = cache)]_vars

\* C8: a handler invocation makes no provider call on a cache hit or a rejected
\* input, exactly one on a miss, and never more than one.
C8_OneProviderCall ==
    last.op # ""
    => /\ last.calls \in {0, 1}
       /\ last.live => last.calls = 0
       /\ InvalidInput(last.op, last.args) => last.calls = 0
       /\ (~last.live /\ ~InvalidInput(last.op, last.args)) => last.calls = 1

\* the query of a search request
QueryOf(l) == DictGet(l.args[1], K.query, None).v

\* search-parse was answered with a text the extractor cannot parse
SearchUnparsed(l) ==
    l.entry = "parse_search_query_view" /\ Answered(l) /\ Extracted(l).t = "None"

\* the filter holds the split query as keywords, null in the five scalar fields,
\* and the value skills in the field skills; the request succeeds and is logged
\* as a success
FallbackAnswered(l, skills) ==
    /\ l.exc = "" /\ l.value.t = "dict"
    /\ Keys(l.value) = {K.keywords, K.location, K.jobType, K.experienceLevel,
                        K.salaryMin, K.salaryMax, K.skills}
    /\ PyEq(DictGet(l.value, K.keywords, None), SplitList(Split(QueryOf(l))))
    /\ \A k \in {K.location, K.jobType, K.experienceLevel, K.salaryMin, K.salaryMax} :
         DictGet(l.value, k, EmptyDict).t = "None"
    /\ PyEq(DictGet(l.value, K.skills, EmptyDict), skills)
    /\ l.status = 200 /\ PyEq(l.data, l.value)
    /\ l.logged = 1 /\ LastRecord.success

DefaultOf(k) == IF k = K.skills THEN PyList(<<>>) ELSE PyStr(<<>>)

\* C10: when the extractor yields an object, even one without fields,
\* resume-parse succeeds; name, email and skills are in the result, defaulted
\* when absent, and the fields present are unchanged.
C10_ObjectCompleted ==
    (last.op = "resume-parse" /\ Answered(last) /\ Extracted(last).t = "dict")
    => /\ last.exc = "" /\ last.value.t = "dict"
       /\ \A k \in {K.name, K.email, K.skills} :
            PyEq(DictGet(last.value, k, None), DictGet(Extracted(last), k, DefaultOf(k)))
       /\ \A k \in Keys(Extracted(last)) :
            PyEq(DictGet(last.value, k, None), DictGet(Extracted(last), k, None))

\* C11: when the extractor yields an object, even one without fields, job-match
\* succeeds; matchScore is in the result, 50 when the object lacks it, and the
\* fields present are unchanged.
C11_MatchScoreDefaulted ==
    (last.op = "job-match" /\ Answered(last) /\ Extracted(last).t = "dict")
    => /\ last.exc = "" /\ last.value.t = "dict"
       /\ PyEq(DictGet(last.value, K.matchScore, None),
               DictGet(Extracted(last), K.matchScore, PyInt(50)))
       /\ \A k \in Keys(Extracted(last)) :
            PyEq(DictGet(last.value, k, None), DictGet(Extracted(last), k, None))

\* the occurrences of the character ch in the text s
Count(s, ch) == Cardinality({i \in 1..Len(s) : s[i] = ch})

\* no array can be parsed from the text: it holds no "[", its brackets are
\* unbalanced, or what lies between the first "[" and the last "]" is no JSON
NoArrayIn(text) ==
    \/ ~Contains(text, <<"[">>)
    \/ Count(text, "[") # Count(text, "]")
    \/ ~JsonLoads(Slice(text, Find(text, <<"[">>, 0), RFind(text, <<"]">>) + 1)).ok

\* C12: when the provider answers interview-questions with a text from which no
\* array can be parsed, the handler returns the empty list and raises nothing.
C12_EmptyListOnNoArray ==
    (last.op = "interview-questions" /\ Answered(last) /\ NoArrayIn(last.answer.text))
    => (last.exc = "" /\ last.value = PyList(<<>>))

\* the provider answered and the extractor made no value of the answer
ExtractionFailed(l) == Answered(l) /\ Extracted(l).t \in {"None", "exception"}

\* C13: for resume-parse, job-match, job-description and salary-insight, when
\* the provider answers and extraction fails, the invocation answers with an
\* error, writes a usage record with success = false and leaves the cache as
\* it was.
C13_ExtractionFailureIsFailure ==
    [][(/\ Invoked /\ last'.entry # ""
        /\ last'.op \in {"resume-parse", "job-match", "job-description", "salary-insight"}
        /\ ExtractionFailed(last'))
       => (/\ last'.status = 500 /\ last'.error # ""
           /\ last'.logged = 1
           /\ ~usageLog'[Len(usageLog')].success
           /\ cache' = cache)]_vars

\* what the call l would have done on an empty cache, given the same answer
OnMiss(l) == Handle(l.op, l.args, <<>>, l.at, l.seed, l.answer)

\* C14: a handler call that finds an entry for its key whose ttl has elapsed
\* does what the same call does on a miss: it calls the provider once, returns
\* or raises what the call on an empty cache does with the same answer, and
\* when it returns the entry holds the new value with a new expiry; the other
\* entries are left alone.
C14_StaleIsMiss ==
    [][(Invoked /\ last'.entry = "" /\ last'.stale)
       => (/\ last'.calls = 1
           /\ last'.exc = OnMiss(last').exc
           /\ last'.value = OnMiss(last').value
           /\ last'.sets = OnMiss(last').sets
           /\ last'.sets = 1 => cache'[last'.key] = OnMiss(last').cache[last'.key]
           /\ last'.sets = 0 => cache' = cache
           /\ \A k \in DOMAIN cache \ {last'.key} : cache'[k] = cache[k])]_vars

\* a job description was generated anew a day after the entry for the same
\* key was stored, and the entry now holds the new value
C14_Witness ==
    /\ last.op = "job-description" /\ last.stale /\ last.at = CACHE_TIMEOUT_LONG
    /\ last.calls = 1 /\ last.exc = ""
    /\ last.key \in DOMAIN cache
    /\ cache[last.key].value = last.value
    /\ cache[last.key].expires = last.at + CACHE_TIMEOUT_LONG

\* the ttl class of an operation: short for resume-parse, job-match and
\* search-parse, long for job-description, interview-questions and salary-insight
TtlOf(op) ==
    IF op \in {"resume-parse", "job-match", "search-parse"}
    THEN CACHE_TIMEOUT_SHORT
    ELSE CACHE_TIMEOUT_LONG

\* C15: every entry is stored with the ttl class of its operation: an entry
\* written by a call expires that ttl after the call.
C15_TtlClass ==
    [][(Invoked /\ last'.sets = 1)
       => cache'[last'.key].expires = now + TtlOf(last'.op)]_vars

\* the body is an object or an array that json.loads accepts
ValidContainer(body) == JsonLoads(body).ok /\ JsonLoads(body).val.t \in {"dict", "list"}

\* the marker that closes the body
Closer(body) == IF Head(body) = "{" THEN "}" ELSE "]"

\* C16: a text whose first non-whitespace character, fences removed, opens a
\* valid object or array that is followed by commentary without the closing
\* marker extracts to that object or array, with or without leading whitespace.
C16_TrailingCommentaryDiscarded ==
    (/\ extraction.done
     /\ extraction.fence \in {"none", "plain", "json"}
     /\ ValidContainer(extraction.body)
     /\ Count(extraction.trail, Closer(extraction.body)) = 0)
    => extraction.result = JsonLoads(extraction.body).val

\* C17: when a text without a fence extracts to a value, the text wrapped in a
\* fenced block, labelled json or not, extracts to the same value.
C17_FenceIdempotent ==
    (/\ extraction.done
     /\ extraction.fence \in {"plain", "json"}
     /\ extraction.bare.t \notin {"None", "exception"})
    => extraction.result = extraction.bare

\* an object followed by commentary was extracted bare and within a labelled fence
C17_Witness ==
    /\ extraction.done /\ extraction.fence = "json"
    /\ extraction.lead = <<>> /\ extraction.body = Body.Obj
    /\ extraction.trail = <<" ", "o", "k">>
    /\ extraction.bare = PyDict(<< <<<<"a">>, PyInt(1)>> >>)
    /\ extraction.result = extraction.bare

\* C18: the extractor returns a value or the failure value, None, for every
\* text and never raises; the empty text yields None.
C18_ExtractorNeverRaises ==
    extraction.done
    => /\ extraction.result.t # "exception"
       /\ extraction.text = <<>> => extraction.result = None

\* C19: every invocation returns to its caller even when the provider never
\* answers: a request that waits for the provider is eventually served.
C19_EveryInvocationReturns == (pending # Idle) ~> (pending = Idle)

\* the request just served was a resume-parse or job-match whose handler
\* returned a result and whose result row was not written
PersistFailed ==
    /\ steps' = steps + 1
    /\ last'.op \in {"resume-parse", "job-match"}
    /\ last'.called /\ last'.exc = ""
    /\ parsedResumes' = parsedResumes
    /\ jobMatches' = jobMatches
    /\ resumes' = resumes

\* C20: for resume-parse and job-match, when the handler has produced a result
\* and the write of the result to the store fails, the caller still receives
\* a successful response.
C20_ResultSurvivesPersistFailure == [][PersistFailed => last'.status = 200]_vars

\* the shape of the results of an operation
ShapeOf(op) == IF op = "interview-questions" THEN "list" ELSE "dict"

\* the worker's call has ended
Ended(w) == workers[w].op # "" /\ workers[w].pc = "rest"

\* C21: for any interleaving of concurrent calls with equal inputs, every call
\* ends with a result of the shape of its operation or with an exception, each
\* entry of the cache holds the result returned by one of the calls that wrote
\* its key, and the provider calls never exceed the calls made.
C21_ConcurrentCallsConsistent ==
    /\ \A w \in Workers :
         Ended(w) => (workers[w].h.exc # "" \/ workers[w].h.value.t = ShapeOf(workers[w].op))
    /\ \A key \in DOMAIN cache :
         \E w \in Workers : <<key, cache[key].value>> \in workers[w].made
    /\ workers[1].calls + workers[2].calls <= invocations

\* the job-match request just served named a job that exists
MatchRequested ==
    /\ Invoked
    /\ last'.entry = "calculate_job_match_view"
    /\ JobMatchRequestSerializer(last'.args[1]).is_valid
    /\ DictGet(last'.args[1], K.job_id, None).v \in DOMAIN Jobs

\* the skills of the candidate profile of the request, and of the job it names
CandidateSkills(data) == DictGet(DictGet(data, K.candidate_profile, None), K.skills, None)

JobSkills(data) == Jobs[DictGet(data, K.job_id, None).v].skills

\* C22: a job-match invocation in which the candidate's skill list or the job's
\* is missing or empty is rejected by the handler with ValueError, the outcome
\* that differs from those of a provider failure and of an extraction failure.
C22_MissingSkillsRejected ==
    [][(/\ Invoked
        /\ last'.op = "job-match"
        /\ \/ last'.entry = "" /\ InvalidInput("job-match", last'.args)
           \/ /\ MatchRequested
              /\ \/ ~Truthy(CandidateSkills(last'.args[1]))
                 \/ ~Truthy(JobSkills(last'.args[1])))
       => (last'.called /\ last'.exc = "ValueError")]_vars

\* C23: a job-match request that names an existing job with skills, with a
\* candidate profile with skills, the provider answering with an object or
\* the answer being in the cache, gets status 200 with the match analysis;
\* the analysis is stored as the user's JobMatch for the job and a successful
\* usage record is written.
C23_JobMatchServed ==
    [][(/\ MatchRequested
        /\ Truthy(CandidateSkills(last'.args[1]))
        /\ Truthy(JobSkills(last'.args[1]))
        /\ \/ ~last'.called
           \/ last'.calls = 0
           \/ Answered(last') /\ Extracted(last').t = "dict" /\ Truthy(Extracted(last')))
       => (/\ last'.status = 200
           /\ last'.called /\ last'.data = last'.value
           /\ DictGet(last'.args[1], K.job_id, None).v \in DOMAIN jobMatches'
           /\ last'.logged = 1
           /\ usageLog'[Len(usageLog')].success)]_vars

\* the request just authenticated carried the token in its header
Presented == steps' = steps + 1 /\ auth'.header = "Bearer" /\ auth'.token.wellformed

\* C24: a request whose bearer token has expired is never authenticated:
\* authenticate raises AuthenticationFailed('Token has expired') and no user
\* is returned or created.
C24_ExpiredTokenRefused ==
    [][(Presented /\ auth'.token.expired)
       => (/\ auth'.outcome = "AuthenticationFailed"
           /\ auth'.detail = "Token has expired"
           /\ users' = users)]_vars

C26_OnePrimaryResume ==
    [][/\ Cardinality({pk \in DOMAIN resumes' : resumes'[pk].is_primary}) <= 1
       /\ \A w \in Workers :
            (/\ workers[w].pc = "write" /\ workers'[w].pc = "rest"
             /\ workers[w].op = "set_primary"
             /\ \A v \in Workers : workers'[v].pc = "rest")
            => resumes'[workers[w].args[1]].is_primary]_vars

\* C27: whenever no mark_review_helpful request is under way, the review's
\* helpful_count equals the number of its ReviewHelpful rows and is not negative
C27_HelpfulCountIsRowCount ==
    (\A w \in Workers : workers[w].pc = "rest")
        => /\ review.helpful_count = Cardinality(review.votes)
           /\ review.helpful_count >= 0

\* C28: every result calculate_job_match returns, and every value it stores in
\* the cache, has a matchScore that is an integer from 0 to 100
ValidScore(value) ==
    /\ value.t = "dict"
    /\ K.matchScore \in Keys(value)
    /\ DictGet(value, K.matchScore, None).t = "int"
    /\ DictGet(value, K.matchScore, None).v \in 0..100

C28_MatchScoreValid ==
    /\ (last.op = "job-match" /\ last.exc = "") => ValidScore(last.value)
    /\ \A key \in DOMAIN cache :
         key.prefix = "job_match_" => ValidScore(cache[key].value)

\* C29: when one of the six AI views has written a usage row, the row's
\* success is true exactly when the response has status 200, and a row with
\* success false holds the message the response returns as its detail
AIViews ==
    {"parse_resume_view", "calculate_job_match_view", "generate_job_description_view",
     "parse_search_query_view", "generate_interview_questions_view",
     "get_salary_insights_view"}

C29_RecordMatchesResponse ==
    (last.entry \in AIViews /\ last.logged >= 1)
        => /\ LastRecord.success <=> last.status = 200
           /\ ~LastRecord.success => LastRecord.error_message = PyStr(last.detail)

\* a view has answered 500 and logged the failure after another view answered
\* 200 and logged the success
C29_Witness ==
    /\ last.entry \in AIViews /\ last.logged = 1
    /\ last.status = 500 /\ ~LastRecord.success
    /\ LastRecord.error_message = PyStr(last.detail)
    /\ \E i \in 1..Len(usageLog) : usageLog[i].success

\* search-parse returned the keyword fallback of its query after a provider call
FallbackReturned(l) ==
    /\ l.op = "search-parse" /\ l.exc = "" /\ l.calls = 1
    /\ l.value = FallbackFilters(l.args[1].v)

\* C30: a search-parse call that returns the keyword fallback leaves it as the
\* live entry of the query's key; a search-parse call that finds a live entry
\* under its query's key returns the entry's value and makes no provider call;
\* and while the process runs no step changes or removes a live search-parse
\* entry.  So every later call with the query within the ttl returns the
\* fallback, whatever the provider would answer.
C30_FallbackServedFromCache ==
    [][/\ (Invoked /\ FallbackReturned(last'))
            => /\ Live(cache', now', last'.key)
               /\ cache'[last'.key].value = last'.value
       /\ (Invoked /\ last'.op = "search-parse" /\ last'.live)
            => /\ last'.calls = 0 /\ last'.exc = ""
               /\ last'.value = cache[last'.key].value
       /\ \A key \in DOMAIN cache :
            (key.prefix = "search_parse_" /\ seed' = seed /\ Live(cache, now', key))
                => (key \in DOMAIN cache' /\ cache'[key] = cache[key])]_vars

\* the query "py  dev" was answered with its fallback an hour after the
\* fallback was stored, with no provider call
C30_Witness ==
    /\ last.op = "search-parse" /\ last.args[1].v = Q_Two
    /\ last.live /\ last.calls = 0 /\ last.at = CACHE_TIMEOUT_SHORT
    /\ last.value = FallbackFilters(Q_Two)
    /\ cache[last.key].value = last.value

====
